---------------------------- MODULE Spec2Model ----------------------------
(***************************************************************************)
(* Amortized Quantum Messaging: the Secure Vault, the Smart Inventory, the  *)
(* Coin Inventory Server and the bridge, as state machines.                 *)
(*                                                                          *)
(* The vault and the inventory keep their state in a keyed record store     *)
(* and are called from parallel worker threads: one atomic step of the      *)
(* model is one command sent to the store (one MULTI/EXEC group counts as   *)
(* one command).  The commands of a pipeline opened with transaction=False  *)
(* are separate steps.  The server keeps its state in a relational table;   *)
(* one atomic step is one SQL statement or one COMMIT.                      *)
(***************************************************************************)
EXTENDS Integers, Sequences, FiniteSets, TLC

(***************************************************************************)
(* Bounds of the model.                                                     *)
(***************************************************************************)
NumThreads == 2   \* parallel worker threads / event-loop tasks
MaxTime    == 1   \* the clock runs over 0..MaxTime
MaxOps     == 4   \* calls started in one behaviour of the vault
MaxKeys    == 2   \* key ids of the server and the inventory: 1..MaxKeys
MaxRows    == 2   \* rows ever inserted into coin_inventory
MaxLocalKeys == 11 \* key ids cached in the inventory that the server never held

Threads == 1..NumThreads
Times   == 0..MaxTime

(***************************************************************************)
(* Catalog (src/config.py).                                                 *)
(***************************************************************************)
Tiers == {"GOLD", "SILVER", "BRONZE"}

None == "None"

VARIABLES
  now,      \* the clock read by time.time() and NOW()
  vault,    \* vault:v1:key:{key_id} hashes, None when the key is absent
  stats,    \* the vault:v1:stats hash
  vth,      \* vault worker threads: position and locals of the running call
  vops,     \* number of vault calls started
  vhist,    \* history: how the burn_key calls on each key ended
  vret,     \* what the vault call that returned last returned
  rows,     \* the coin_inventory table, by record_id (committed state and row locks)
  nextRid,  \* the BIGSERIAL sequence of record_id
  sth,      \* server tasks: position and locals of the running call
  sret,     \* what the server call that returned last returned
  delivered, \* history: how many fetch_coins calls returned each row
  meta,     \* inv:v1:meta:{contact} hashes: priority and last_msg_at
  idx,      \* inv:v1:idx:{contact}:{tier} sorted sets
  rec,      \* inv:v1:key:{contact}:{key_id} hashes
  ith,      \* inventory worker threads: position and locals of the running call
  popped,   \* history: fetched_at of the entry select_coin returned last from a tier
  given,    \* history: the tier and the key ids a run of select_coin calls starts from
  watchSent, \* whether the client's watch() puts a WATCH on the pipeline's connection
  br,       \* bridge tasks of the event loop: position and locals
  bret      \* what the bridge task that returned last returned

vaultVars == <<vault, stats, vth, vops, vhist, vret>>
srvVars   == <<rows, nextRid, sth, sret, delivered>>
invVars   == <<meta, idx, rec, ith, popped, given, watchSent>>
brVars    == <<br, bret>>
vars == <<now, vaultVars, srvVars, invVars, brVars>>

nonVault == <<srvVars, invVars, brVars>>
nonSrv   == <<vaultVars, invVars, brVars>>
nonInv   == <<vaultVars, srvVars, brVars>>

(***************************************************************************)
(* time.time(): the clock advances between any two steps.                   *)
(***************************************************************************)
Tick ==
  /\ now < MaxTime
  /\ now' = now + 1
  /\ UNCHANGED <<vaultVars, srvVars, invVars, brVars>>

(***************************************************************************)
(*                              SECURE VAULT                                *)
(***************************************************************************)
VKeys == {"k1", "k2"}

\* Arguments of store_key: PLATINUM is the invalid category of the tests.
VCategories == Tiers \cup {"PLATINUM"}

\* The TTL a key carries: set by EXPIRE in store_key and in burn_key.
KEY_TTL    == "VAULT_KEY_TTL_SECONDS"
BURN_GRACE == "VAULT_BURN_GRACE_SECONDS"

\* An absent key.  A field a hash does not hold reads as None (created_at: -1).
VAbsent == [status |-> None, coin_category |-> None, encrypted_blob |-> None,
            created_at |-> -1, ttl |-> None]

\* Arguments of store_key: the encrypted blob with its iv and its auth tag.
VBlobs == {"blob1", "blob2"}

\* _serialize_entry: the hash written by store_key.
Vault_serialize_entry(cat, blob, created) ==
  [status |-> "ACTIVE", coin_category |-> cat, encrypted_blob |-> blob,
   created_at |-> created, ttl |-> KEY_TTL]

\* HSET status BURNED; EXPIRE grace.  HSET on an absent key creates a hash
\* that holds the status field alone.
Vault_burn_write(e) ==
  IF e = VAbsent
    THEN [status |-> "BURNED", coin_category |-> None, encrypted_blob |-> None,
          created_at |-> -1, ttl |-> BURN_GRACE]
    ELSE [e EXCEPT !.status = "BURNED", !.ttl = BURN_GRACE]

VIdle == [pc |-> "idle", op |-> None, key |-> None, cat |-> None, blob |-> None,
          rcat |-> None, t0 |-> 0, cutoff |-> 0, todo |-> {}, purged |-> 0]

\* History of a key id: how its burn_key calls ended, how often it entered
\* ACTIVE, how often purge_expired deleted it.
VNoHist == [ok |-> 0, already |-> 0, notfound |-> 0, active |-> 0, purged |-> 0]

\* What a call returned (or the error it raised); for purge_expired the
\* number of keys it purged.
VRet(op, key, res, purged) == [op |-> op, key |-> key, res |-> res, purged |-> purged]

VaultInit ==
  /\ vault = [k \in VKeys |-> VAbsent]
  /\ stats = [active |-> [T \in Tiers |-> 0], total_burned |-> 0, total_expired |-> 0]
  /\ vth = [t \in Threads |-> VIdle]
  /\ vops = 0
  /\ vret = VRet(None, None, None, 0)
  /\ vhist = [k \in VKeys |-> VNoHist]


VStart(t) ==
  /\ vth[t].pc = "idle"
  /\ vops < MaxOps
  /\ vops' = vops + 1

\* store_key with the EXISTS check left out.
Vault_store_key_call_unchecked(t, k, cat, blob) ==
  /\ VStart(t)
  /\ vth' = [vth EXCEPT ![t] =
       IF cat \notin Tiers THEN VIdle
       ELSE [VIdle EXCEPT !.pc = "store_exec", !.op = "store_key", !.key = k,
                          !.cat = cat, !.blob = blob, !.t0 = now]]
  /\ vret' = IF cat \notin Tiers THEN VRet("store_key", k, "InvalidCoinCategory", 0)
             ELSE vret
  /\ UNCHANGED <<now, vault, stats, vhist>>
  /\ UNCHANGED nonVault

\* store_key(k, cat, blob, ...), lines 62-67: validation and the EXISTS check.
Vault_store_key_call(t, k, cat, blob) ==
  /\ VStart(t)
  /\ vth' = [vth EXCEPT ![t] =
       IF cat \notin Tiers \/ vault[k] # VAbsent THEN VIdle
       ELSE [VIdle EXCEPT !.pc = "store_exec", !.op = "store_key", !.key = k,
                          !.cat = cat, !.blob = blob, !.t0 = now]]
  /\ vret' = IF cat \notin Tiers THEN VRet("store_key", k, "InvalidCoinCategory", 0)
             ELSE IF vault[k] # VAbsent THEN VRet("store_key", k, "KeyAlreadyExists", 0)
             ELSE vret
  /\ UNCHANGED <<now, vault, stats, vhist>>
  /\ UNCHANGED nonVault

Vault_store_key_exists(t, blobs) ==
  \E k \in VKeys, cat \in VCategories, blob \in blobs :
    Vault_store_key_call(t, k, cat, blob)

\* store_key, lines 69-79: the MULTI group HSET mapping, EXPIRE, HINCRBY.
\* created_at is the clock read between the EXISTS check and the EXEC.
Vault_store_key_exec(t) ==
  /\ vth[t].pc = "store_exec"
  /\ \E created \in vth[t].t0 .. now :
       vault' = [vault EXCEPT ![vth[t].key] =
                   Vault_serialize_entry(vth[t].cat, vth[t].blob, created)]
  /\ stats' = [stats EXCEPT !.active[vth[t].cat] = @ + 1]
  /\ vth' = [vth EXCEPT ![t] = VIdle]
  /\ vret' = VRet("store_key", vth[t].key, "OK", 0)
  /\ vhist' = [vhist EXCEPT ![vth[t].key].active =
                 IF vault[vth[t].key].status = "ACTIVE" THEN @ ELSE @ + 1]
  /\ UNCHANGED <<now, vops>>
  /\ UNCHANGED nonVault

\* burn_key with the two status checks left out.
Vault_burn_key_hmget_unchecked(t) ==
  \E k \in VKeys :
    /\ VStart(t)
    /\ vret' = vret
    /\ vth' = [vth EXCEPT ![t] =
         [VIdle EXCEPT !.pc = "burn_exec", !.op = "burn_key", !.key = k,
                       !.rcat = IF vault[k].coin_category = None THEN "GOLD"
                                ELSE vault[k].coin_category]]
    /\ UNCHANGED <<now, vault, stats, vhist>>
    /\ UNCHANGED nonVault

\* burn_key, lines 86-94: HMGET status, coin_category and the two checks.
Vault_burn_key_hmget(t) ==
  \E k \in VKeys :
    /\ VStart(t)
    /\ vret' = IF vault[k] = VAbsent THEN VRet("burn_key", k, "KeyNotFound", 0)
               ELSE IF vault[k].status = "BURNED" THEN VRet("burn_key", k, "KeyAlreadyBurned", 0)
               ELSE vret
    /\ vth' = [vth EXCEPT ![t] =
         IF vault[k] = VAbsent \/ vault[k].status = "BURNED" THEN VIdle
         ELSE [VIdle EXCEPT !.pc = "burn_exec", !.op = "burn_key", !.key = k,
                            !.rcat = vault[k].coin_category]]
    /\ vhist' = [vhist EXCEPT ![k] =
         IF vault[k] = VAbsent THEN [@ EXCEPT !.notfound = @ + 1]
         ELSE IF vault[k].status = "BURNED" THEN [@ EXCEPT !.already = @ + 1]
         ELSE @]
    /\ UNCHANGED <<now, vault, stats>>
    /\ UNCHANGED nonVault

\* burn_key, lines 96-103: the MULTI group HSET, EXPIRE, HINCRBY, HINCRBY.
Vault_burn_key_exec(t) ==
  /\ vth[t].pc = "burn_exec"
  /\ vault' = [vault EXCEPT ![vth[t].key] = Vault_burn_write(@)]
  /\ stats' = [stats EXCEPT !.active[vth[t].rcat] = @ - 1, !.total_burned = @ + 1]
  /\ vth' = [vth EXCEPT ![t] = VIdle]
  /\ vret' = VRet("burn_key", vth[t].key, "OK", 0)
  /\ vhist' = [vhist EXCEPT ![vth[t].key].ok = @ + 1]
  /\ UNCHANGED <<now, vops>>
  /\ UNCHANGED nonVault

\* fetch_key answers for every hash that exists (the status test left out).
Vault_fetch_result_any(e) ==
  IF e = VAbsent THEN None ELSE e.encrypted_blob

\* fetch_key, lines 111-117: what the call returns for the hash HGETALL read:
\* nothing for an empty hash and for a BURNED one, else the entry with the
\* bytes of the hash as they are.
Vault_fetch_result(e) ==
  IF e = VAbsent THEN None
  ELSE IF e.status = "BURNED" THEN None
  ELSE e.encrypted_blob

\* fetch_key, lines 108-117: one HGETALL.
Vault_fetch_key(t) ==
  \E k \in VKeys :
    /\ VStart(t)
    /\ vret' = VRet("fetch_key", k, Vault_fetch_result(vault[k]), 0)
    /\ UNCHANGED <<now, vault, stats, vth, vhist>>
    /\ UNCHANGED nonVault

\* purge_expired, lines 180-186: the cutoff and the SCAN of the key space.
MaxAges == {0, 1}

Vault_purge_expired_scan(t) ==
  \E age \in MaxAges :
    /\ VStart(t)
    /\ LET keys == {k \in VKeys : vault[k] # VAbsent} IN
       vth' = [vth EXCEPT ![t] =
         IF keys = {} THEN VIdle
         ELSE [VIdle EXCEPT !.pc = "purge_hmget", !.op = "purge_expired",
                            !.cutoff = now - age, !.todo = keys]]
       /\ vret' = IF keys = {} THEN VRet("purge_expired", None, "OK", 0) ELSE vret
    /\ UNCHANGED <<now, vault, stats, vhist>>
    /\ UNCHANGED nonVault

\* After the last key of the scan the call returns the number purged.
VPurgeNext(l, todo) ==
  IF todo = {} THEN VIdle
  ELSE [l EXCEPT !.pc = "purge_hmget", !.todo = todo, !.key = None, !.rcat = None]

VPurgeRet(r, purged, todo) ==
  IF todo = {} THEN VRet("purge_expired", None, "OK", purged) ELSE r

\* The test of lines 191-194 on what HMGET returned.
Vault_purge_selects(e, cutoff) ==
  /\ e.status = "ACTIVE"
  /\ ~ (e.created_at > cutoff)

\* purge_expired, lines 187-194: HMGET of the next key and the two tests.
Vault_purge_expired_hmget(t) ==
  /\ vth[t].pc = "purge_hmget"
  /\ \E k \in vth[t].todo :
       IF Vault_purge_selects(vault[k], vth[t].cutoff)
         THEN /\ vth' = [vth EXCEPT ![t] =
                   [@ EXCEPT !.pc = "purge_exec", !.key = k, !.todo = @ \ {k},
                             !.rcat = vault[k].coin_category]]
              /\ vret' = vret
         ELSE /\ vth' = [vth EXCEPT ![t] = VPurgeNext(@, vth[t].todo \ {k})]
              /\ vret' = VPurgeRet(vret, vth[t].purged, vth[t].todo \ {k})
  /\ UNCHANGED <<now, vault, stats, vops, vhist>>
  /\ UNCHANGED nonVault

\* purge_expired, lines 196-202: the MULTI group DEL, HINCRBY, HINCRBY.
Vault_purge_expired_exec(t) ==
  /\ vth[t].pc = "purge_exec"
  /\ vault' = [vault EXCEPT ![vth[t].key] = VAbsent]
  /\ stats' = [stats EXCEPT !.active[vth[t].rcat] = @ - 1, !.total_expired = @ + 1]
  /\ vth' = [vth EXCEPT ![t] = VPurgeNext([@ EXCEPT !.purged = @ + 1], vth[t].todo)]
  /\ vret' = VPurgeRet(vret, vth[t].purged + 1, vth[t].todo)
  /\ vhist' = [vhist EXCEPT ![vth[t].key].purged =
                 IF vault[vth[t].key] = VAbsent THEN @ ELSE @ + 1]
  /\ UNCHANGED <<now, vops>>
  /\ UNCHANGED nonVault

\* The store drops a key when its TTL runs out: 30 days after store_key.
Vault_key_ttl_expiry ==
  \E k \in VKeys :
    /\ vault[k] # VAbsent
    /\ vault[k].ttl = KEY_TTL
    /\ vault' = [vault EXCEPT ![k] = VAbsent]
    /\ UNCHANGED <<now, stats, vth, vops, vhist, vret>>
    /\ UNCHANGED nonVault

\* The store drops a burned key when the grace window runs out.
Vault_burn_grace_expiry ==
  \E k \in VKeys :
    /\ vault[k] # VAbsent
    /\ vault[k].ttl = BURN_GRACE
    /\ vault' = [vault EXCEPT ![k] = VAbsent]
    /\ UNCHANGED <<now, stats, vth, vops, vhist, vret>>
    /\ UNCHANGED nonVault

(***************************************************************************)
(*                          COIN INVENTORY SERVER                           *)
(*                                                                          *)
(* The table lives in a relational database at READ COMMITTED.  A row that  *)
(* fetch_coins has selected FOR UPDATE stays locked, and its UPDATE stays   *)
(* invisible to the other connections, until the transaction commits.       *)
(* SKIP LOCKED passes over a locked row; a DELETE that meets a locked row   *)
(* waits for the lock.                                                      *)
(***************************************************************************)
Keys       == 1..MaxKeys
Rids       == 1..MaxRows
Users      == {"bob", "carol"}
Requesters == {"alice", "dave"}
Counts     == 1..2
SCategories == Tiers \cup {"PLATINUM"}

\* upload_coins argument: a list of CoinUpload(key_id, coin_category).
UploadTiers == {"SILVER", "BRONZE"}
Coins   == [key : Keys, cat : UploadTiers]
Batches == {<<>>} \cup {<<c>> : c \in Coins} \cup {<<c, d>> : c \in Coins, d \in Coins}

RAbsent == [user |-> None, key |-> 0, cat |-> None, up |-> -1,
            fby |-> None, fat |-> -1, lock |-> 0]

SIdle == [pc |-> "idle", req |-> None, got |-> {}, t0 |-> 0]

\* A return: the call, its task, its outcome, the number it returns
\* (upload_coins, purge_stale, hard_delete_fetched), the rows it returns
\* (fetch_coins) or the counts it returns (get_inventory_count).
SRet(op, res, n, got, counts) ==
  [op |-> op, res |-> res, n |-> n, got |-> got, counts |-> counts]

NoCounts == [T \in Tiers |-> 0]

ServerInit ==
  /\ rows = [r \in Rids |-> RAbsent]
  /\ nextRid = 1
  /\ sth = [t \in Threads |-> SIdle]
  /\ sret = SRet(None, None, 0, {}, NoCounts)
  /\ delivered = [r \in Rids |-> 0]

RowExists(tbl, user, key) ==
  \E r \in Rids : tbl[r].user = user /\ tbl[r].key = key

\* INSERT with no ON CONFLICT clause taken into account: every coin of the
\* batch becomes a row.
RECURSIVE Srv_insert_all_noconflict(_, _, _, _, _, _)
Srv_insert_all_noconflict(tbl, nxt, user, batch, at, inserted) ==
  IF batch = <<>> THEN [rows |-> tbl, nextRid |-> nxt, inserted |-> inserted]
  ELSE Srv_insert_all_noconflict(
         [tbl EXCEPT ![nxt] = [user |-> user, key |-> Head(batch).key,
                               cat |-> Head(batch).cat, up |-> at,
                               fby |-> None, fat |-> -1, lock |-> 0]],
         nxt + 1, user, Tail(batch), at, inserted + 1)

\* INSERT ... ON CONFLICT (user_id, key_id) DO NOTHING RETURNING record_id,
\* for each coin of the batch in turn: the table, the sequence and the
\* number of rows inserted.  uploaded_at defaults to NOW().
RECURSIVE Srv_insert_all(_, _, _, _, _, _)
Srv_insert_all(tbl, nxt, user, batch, at, inserted) ==
  IF batch = <<>> THEN [rows |-> tbl, nextRid |-> nxt, inserted |-> inserted]
  ELSE IF RowExists(tbl, user, Head(batch).key)
    THEN Srv_insert_all(tbl, nxt, user, Tail(batch), at, inserted)
    ELSE Srv_insert_all(
           [tbl EXCEPT ![nxt] = [user |-> user, key |-> Head(batch).key,
                                 cat |-> Head(batch).cat, up |-> at,
                                 fby |-> None, fat |-> -1, lock |-> 0]],
           nxt + 1, user, Tail(batch), at, inserted + 1)

\* upload_coins(user, batch): the batch runs in one transaction; its rows
\* become visible together at COMMIT.  An empty batch returns 0 (line 17).
Srv_upload_batch(t, user, batch) ==
  /\ sth[t].pc = "idle"
  /\ LET r == Srv_insert_all(rows, nextRid, user, batch, now, 0) IN
       /\ r.nextRid <= MaxRows + 1
       /\ rows' = r.rows
       /\ nextRid' = r.nextRid
       /\ sret' = SRet("upload_coins", "OK", r.inserted, {}, NoCounts)
  /\ UNCHANGED <<now, sth, delivered>>
  /\ UNCHANGED nonSrv

Srv_upload_coins(t) ==
  \E user \in Users, batch \in Batches :
    /\ nextRid + Len(batch) <= MaxRows + 1
    /\ Srv_upload_batch(t, user, batch)

\* A claiming statement that takes no row lock and so passes over none.
Srv_fetch_candidates_nolock(user, cat) ==
  {r \in Rids : /\ rows[r].user = user
                /\ rows[r].cat = cat
                /\ rows[r].fby = None}

\* The rows the claimed CTE may see: WHERE user_id = $1 AND coin_category = $2
\* AND fetched_by IS NULL, passing over the locked ones.
Srv_fetch_candidates(user, cat) ==
  {r \in Rids : /\ rows[r].user = user
                /\ rows[r].cat = cat
                /\ rows[r].fby = None
                /\ rows[r].lock = 0}

\* LIMIT $3 with no ORDER BY: any rows among the candidates.
Srv_fetch_choices_unordered(user, cat, count) ==
  LET cand == Srv_fetch_candidates(user, cat)
      k    == IF Cardinality(cand) < count THEN Cardinality(cand) ELSE count
  IN {S \in SUBSET cand : Cardinality(S) = k}

\* ORDER BY uploaded_at ASC LIMIT $3: the sets the CTE may return (rows with
\* equal uploaded_at come in either order).
Srv_fetch_choices(user, cat, count) ==
  LET cand == Srv_fetch_candidates(user, cat)
      k    == IF Cardinality(cand) < count THEN Cardinality(cand) ELSE count
  IN {S \in SUBSET cand :
        /\ Cardinality(S) = k
        /\ \A r \in S, q \in cand \ S : rows[r].up <= rows[q].up}

\* fetch_coins, lines 50-72, called by task t with a valid category: the
\* claiming statement inside the transaction: the chosen rows are locked,
\* their update is pending.
Srv_fetch_stmt(t, user, req, cat, count) ==
  /\ sth[t].pc = "idle"
  /\ \E S \in Srv_fetch_choices(user, cat, count) :
       /\ rows' = [r \in Rids |-> IF r \in S THEN [rows[r] EXCEPT !.lock = t]
                                  ELSE rows[r]]
       /\ sth' = [sth EXCEPT ![t] =
            IF S = {} THEN [SIdle EXCEPT !.pc = "fetch_commit"]
            ELSE [SIdle EXCEPT !.pc = "fetch_commit", !.req = req,
                               !.got = S, !.t0 = now]]

\* fetch_coins, lines 50-72: validation, then the claiming statement.
Srv_fetch_coins_stmt(t) ==
  \E user \in Users, req \in Requesters, cat \in SCategories, count \in Counts :
    /\ IF cat \notin Tiers
         THEN /\ sth[t].pc = "idle"
              /\ sret' = SRet("fetch_coins", "InvalidCoinCategory", 0, {}, NoCounts)
              /\ UNCHANGED <<rows, sth>>
         ELSE /\ Srv_fetch_stmt(t, user, req, cat, count)
              /\ sret' = sret
    /\ UNCHANGED <<now, nextRid, delivered>>
    /\ UNCHANGED nonSrv

\* fetch_coins, lines 63-82: COMMIT makes fetched_by, fetched_at visible and
\* releases the locks; the call returns the claimed rows.
Srv_fetch_commit(t) ==
  /\ sth[t].pc = "fetch_commit"
  /\ rows' = [r \in Rids |->
       IF r \in sth[t].got
         THEN [rows[r] EXCEPT !.fby = sth[t].req, !.fat = sth[t].t0, !.lock = 0]
         ELSE rows[r]]
  /\ delivered' = [r \in Rids |-> IF r \in sth[t].got THEN delivered[r] + 1
                                  ELSE delivered[r]]
  /\ sth' = [sth EXCEPT ![t] = SIdle]

Srv_fetch_coins_commit(t) ==
  /\ Srv_fetch_commit(t)
  /\ sret' = SRet("fetch_coins", "OK", Cardinality(sth[t].got), sth[t].got, NoCounts)
  /\ UNCHANGED <<now, nextRid>>
  /\ UNCHANGED nonSrv

\* A count that leaves out the fetched_by filter.
Srv_counted_rows_all(user) ==
  {r \in Rids : rows[r].user = user}

\* The rows get_inventory_count counts: WHERE user_id = $1 AND fetched_by IS NULL.
Srv_counted_rows(user) ==
  {r \in Rids : rows[r].user = user /\ rows[r].fby = None}

\* Lines 102-110: the counts by tier, 0 for a tier the query returns no group for.
Srv_inventory_count(user) ==
  [T \in Tiers |-> Cardinality({r \in Srv_counted_rows(user) : rows[r].cat = T})]

\* get_inventory_count: one query, GROUP BY coin_category.
Srv_get_inventory_count(t) ==
  \E user \in Users :
    /\ sth[t].pc = "idle"
    /\ sret' = SRet("get_inventory_count", "OK", 0, {}, Srv_inventory_count(user))
    /\ UNCHANGED <<now, rows, nextRid, sth, delivered>>
    /\ UNCHANGED nonSrv

\* A purge that leaves out the fetched_by filter.
Srv_purge_stale_rows_any(age) ==
  {r \in Rids : rows[r].user # None /\ rows[r].up < now - age}

\* purge_stale: WHERE uploaded_at < NOW() - age AND fetched_by IS NULL.
Srv_purge_stale_rows(age) ==
  {r \in Rids : rows[r].user # None /\ rows[r].up < now - age /\ rows[r].fby = None}

\* purge_stale(max_age_days), lines 116-128: one DELETE, which waits for the
\* lock of a row it is to delete; the number of the command tag is returned.
Srv_purge_stale_call(t, age) ==
  /\ sth[t].pc = "idle"
  /\ \A r \in Srv_purge_stale_rows(age) : rows[r].lock = 0
  /\ rows' = [r \in Rids |-> IF r \in Srv_purge_stale_rows(age) THEN RAbsent
                             ELSE rows[r]]
  /\ sret' = SRet("purge_stale", "OK", Cardinality(Srv_purge_stale_rows(age)),
                   {}, NoCounts)
  /\ UNCHANGED <<now, nextRid, sth, delivered>>
  /\ UNCHANGED nonSrv

Srv_purge_stale(t) == \E age \in MaxAges : Srv_purge_stale_call(t, age)

\* hard_delete_fetched: WHERE fetched_by IS NOT NULL AND fetched_at < NOW() - grace.
Srv_hard_delete_rows(grace) ==
  {r \in Rids : rows[r].user # None /\ rows[r].fby # None /\ rows[r].fat < now - grace}

\* hard_delete_fetched(grace_hours), lines 133-144.
Srv_hard_delete_fetched_call(t, grace) ==
  /\ sth[t].pc = "idle"
  /\ rows' = [r \in Rids |-> IF r \in Srv_hard_delete_rows(grace) THEN RAbsent
                             ELSE rows[r]]
  /\ sret' = SRet("hard_delete_fetched", "OK",
                   Cardinality(Srv_hard_delete_rows(grace)), {}, NoCounts)
  /\ UNCHANGED <<now, nextRid, sth, delivered>>
  /\ UNCHANGED nonSrv

Srv_hard_delete_fetched(t) ==
  \E grace \in MaxAges : Srv_hard_delete_fetched_call(t, grace)

(***************************************************************************)
(* The Smart Inventory (src/AQM_Database/inventory.py).                     *)
(*                                                                          *)
(* inv:v1:meta:{contact} is a hash, inv:v1:idx:{contact}:{tier} a sorted    *)
(* set of key ids scored by fetched_at, inv:v1:key:{contact}:{key_id} a     *)
(* hash.  A sorted set is a function from key ids to scores, ZAbsent for a  *)
(* key id that is no member; members of equal score are ordered by key id.  *)
(***************************************************************************)
Contacts    == {"c1"}
Priorities  == {"BESTIE", "MATE", "STRANGER"}
IPriorities == Priorities \cup {"ENEMY"}
ICategories == Tiers \cup {"PLATINUM"}

BUDGET_CAPS ==
  [BESTIE   |-> [GOLD |-> 5, SILVER |-> 4, BRONZE |-> 1],
   MATE     |-> [GOLD |-> 0, SILVER |-> 6, BRONZE |-> 4],
   STRANGER |-> [GOLD |-> 0, SILVER |-> 0, BRONZE |-> 0]]

INV_OPTIMISTIC_LOCK_RETRIES == 3

TIER_FALLBACK ==
  [GOLD |-> <<"SILVER", "BRONZE">>, SILVER |-> <<"BRONZE">>, BRONZE |-> <<>>]

\* ["BESTIE", "MATE", "STRANGER"].index(priority)
PriorityRank == [BESTIE |-> 0, MATE |-> 1, STRANGER |-> 2]

\* for tier in ("GOLD", "SILVER", "BRONZE")
TierOrder == <<"GOLD", "SILVER", "BRONZE">>

ZAbsent == 0 - 1
ZEmpty  == [k \in Keys |-> ZAbsent]
ZMembers(z) == {k \in DOMAIN z : z[k] # ZAbsent}
ZCard(z) == Cardinality(ZMembers(z))
\* The sorted-set order: by score, then by member.
ZBefore(z, j, k) == z[j] < z[k] \/ (z[j] = z[k] /\ j < k)
ZMin(z) == CHOOSE k \in ZMembers(z) : \A j \in ZMembers(z) \ {k} : ZBefore(z, k, j)
ZMax(z) == CHOOSE k \in ZMembers(z) : \A j \in ZMembers(z) \ {k} : ZBefore(z, j, k)
ZRemove(z, S) == [k \in DOMAIN z |-> IF k \in S THEN ZAbsent ELSE z[k]]
\* A ZPOPMIN that leaves the member in the sorted set.
ZPeekMin(z) == z
\* The sorted set after ZPOPMIN key 1.
ZPopMin(z) == ZRemove(z, {ZMin(z)})
\* ZPOPMAX key count: the count members of highest score, highest first.
RECURSIVE ZPopMax(_, _)
ZPopMax(z, n) ==
  IF n = 0 \/ ZMembers(z) = {} THEN <<>>
  ELSE <<ZMax(z)>> \o ZPopMax(ZRemove(z, {ZMax(z)}), n - 1)
\* ZRANGE key 0 -1: the members, lowest first.
RECURSIVE ZRange(_)
ZRange(z) ==
  IF ZMembers(z) = {} THEN <<>>
  ELSE <<ZMin(z)>> \o ZRange(ZRemove(z, {ZMin(z)}))
SeqSet(s) == {s[i] : i \in 1..Len(s)}

MAbsent == [priority |-> None, display_name |-> None, last_msg_at |-> 0 - 1]
IRecAbsent == [coin_category |-> None, fetched_at |-> 0 - 1]

\* _serialize_entry: the fields of the record the model follows.
Inv_serialize_entry(cat, at) == [coin_category |-> cat, fetched_at |-> at]

\* A cap check that lets the count reach cap + 1.
Inv_budget_over(count, cap) == count > cap

\* Line 181: the tier is full.
Inv_budget_full(count, cap) == count >= cap

\* A cap-0 check that never fires.
Inv_cap_is_negative(cap) == cap < 0

\* store_key, line 172: if cap == 0.
Inv_cap_is_zero(cap) == cap = 0

\* get_inventory, lines 245-247: ZCARD of the three indexes.
Inv_get_inventory(c) == [T \in Tiers |-> ZCard(idx[c][T])]

\* get_contact_meta that takes a contact with no meta hash for a BESTIE.
Inv_get_contact_meta_default(c) ==
  IF meta[c] = MAbsent THEN [priority |-> "BESTIE", display_name |-> "", last_msg_at |-> 0] ELSE meta[c]

\* get_contact_meta, lines 143-152: HGETALL of the meta hash; MAbsent stands
\* for the None returned when the hash is empty.
Inv_get_contact_meta(c) == meta[c]

\* config.COIN_SIZE_BYTES.
COIN_SIZE_BYTES == [GOLD |-> 3604, SILVER |-> 1248, BRONZE |-> 96]

\* types.GCResult.
GCResult(cleaned, deleted, bytes) ==
  [contacts_cleaned |-> cleaned, keys_deleted |-> deleted, bytes_freed |-> bytes]
GCZero == GCResult(0, 0, 0)

\* What a garbage_collect call met when it started: whether the contact was
\* past the cutoff, the number of its entry records, and the result dry_run
\* gives in that state.
GCNoPre == [inactive |-> FALSE, had |-> 0, dry |-> GCZero]

IIdle == [pc |-> "idle", op |-> None, c |-> None, key |-> 0, cat |-> None,
          prio |-> None, old |-> None, n |-> 0, tiers |-> <<>>, todo |-> <<>>,
          t0 |-> 0, watch |-> None, dirty |-> FALSE, first |-> None,
          res |-> None, from |-> None, rcat |-> None, fat |-> 0 - 1,
          result |-> GCZero, pre |-> GCNoPre,
          current_count |-> 0 - 1, cap |-> 0 - 1, name |-> None]

\* The locals of a call that has returned: what it was and what it returned.
IDone(op, res) == [IIdle EXCEPT !.op = op, !.res = res]

\* BudgetExceededError(contact_id, coin_category, current_count, cap) raised
\* by the call op.
IBudgetExceeded(op, current_count, cap) ==
  [IDone(op, "BudgetExceeded") EXCEPT !.current_count = current_count, !.cap = cap]

IEntry(op, l) ==
  [IIdle EXCEPT !.op = op, !.res = "entry", !.key = l.key, !.cat = l.cat,
                !.from = l.from, !.rcat = l.rcat, !.fat = l.fat, !.first = l.first]

\* The threads' locals after thread t has moved to l and has written to the
\* indexes Ts of contact c: a write to a watched index marks the watch of
\* every other connection.
ISet(t, l, c, Ts) ==
  [u \in Threads |->
     IF u = t THEN l
     ELSE IF ith[u].watch \in Ts /\ ith[u].c = c
            THEN [ith[u] EXCEPT !.dirty = TRUE]
            ELSE ith[u]]

InvInit ==
  /\ meta = [c \in Contacts |-> MAbsent]
  /\ idx = [c \in Contacts |-> [T \in Tiers |-> ZEmpty]]
  /\ rec = [c \in Contacts |-> [k \in Keys |-> IRecAbsent]]
  /\ ith = [t \in Threads |-> IIdle]
  /\ popped = [c \in Contacts |-> [T \in Tiers |-> 0 - 1]]
  /\ given = [tier |-> None, keys |-> {}]
  /\ watchSent = FALSE

\* register_contact(contact_id, priority, display_name) has returned res.
IRegisterDone(c, p, name, res) ==
  [IDone("register_contact", res) EXCEPT !.c = c, !.prio = p, !.name = name]

\* A register_contact that does not look for the meta hash before it writes.
Inv_register_contact_call_overwrite(t, c, p, name) ==
  /\ ith[t].pc = "idle"
  /\ ith' = [ith EXCEPT ![t] =
       IF p \notin Priorities THEN IRegisterDone(c, p, name, "InvalidPriority")
       ELSE [IIdle EXCEPT !.pc = "reg_hset", !.op = "register_contact",
                          !.c = c, !.prio = p, !.name = name]]
  /\ UNCHANGED <<now, meta, idx, rec, popped, given, watchSent>>
  /\ UNCHANGED nonInv

\* register_contact, lines 105-109: validation, EXISTS.
Inv_register_contact_call(t, c, p, name) ==
  /\ ith[t].pc = "idle"
  /\ ith' = [ith EXCEPT ![t] =
       IF p \notin Priorities THEN IRegisterDone(c, p, name, "InvalidPriority")
       ELSE IF meta[c] # MAbsent THEN IRegisterDone(c, p, name, "False")
       ELSE [IIdle EXCEPT !.pc = "reg_hset", !.op = "register_contact",
                          !.c = c, !.prio = p, !.name = name]]
  /\ UNCHANGED <<now, meta, idx, rec, popped, given, watchSent>>
  /\ UNCHANGED nonInv

\* register_contact called with the default display_name (line 104).
Inv_register_contact_exists(t) ==
  \E c \in Contacts, p \in IPriorities : Inv_register_contact_call(t, c, p, "")

\* register_contact, lines 110-116: HSET of the whole mapping.
Inv_register_contact_hset(t) ==
  /\ ith[t].pc = "reg_hset"
  /\ LET l == ith[t]
     IN /\ meta' = [meta EXCEPT ![l.c] =
             [priority |-> l.prio, display_name |-> l.name, last_msg_at |-> now]]
        /\ ith' = [ith EXCEPT ![t] = IRegisterDone(l.c, l.prio, l.name, "True")]
  /\ UNCHANGED <<now, idx, rec, popped, given, watchSent>>
  /\ UNCHANGED nonInv

\* set_contact_priority, lines 121-127, for the call op.
ISetPriorityGet(op, c, p) ==
  IF p \notin Priorities THEN IDone(op, "InvalidPriority")
  ELSE IF meta[c] = MAbsent THEN IDone(op, "ContactNotRegistered")
  ELSE IF meta[c].priority = p THEN IDone(op, "True")
  ELSE [IIdle EXCEPT !.pc = "sp_hset", !.op = op, !.c = c, !.prio = p,
                     !.old = meta[c].priority]

Inv_set_contact_priority_get(t) ==
  \E c \in Contacts, p \in IPriorities :
    /\ ith[t].pc = "idle"
    /\ ith' = [ith EXCEPT ![t] = ISetPriorityGet("set_contact_priority", c, p)]
    /\ UNCHANGED <<now, meta, idx, rec, popped, given, watchSent>>
    /\ UNCHANGED nonInv

\* set_contact_priority returns True; called by the garbage collector (lines
\* 66-67 and 95-101), the contact is counted as cleaned and the GCResult is
\* returned.
ISetPriorityDone(l) ==
  IF l.op = "set_contact_priority" THEN IDone(l.op, "True")
  ELSE [IDone(l.op, "GCResult") EXCEPT
          !.result = [l.result EXCEPT !.contacts_cleaned = 1], !.pre = l.pre]

\* The locals at the head of the loop of _trim_excess over the tiers left,
\* or after the loop.
ITrimNext(l, tiers) ==
  IF tiers = <<>> THEN ISetPriorityDone(l)
  ELSE [l EXCEPT !.pc = "trim_zcard", !.tiers = tiers, !.todo = <<>>, !.n = 0]

\* set_contact_priority, lines 129-137: HSET priority, then the trim only
\* when the new rank is below the old one.
Inv_set_contact_priority_hset(t) ==
  /\ ith[t].pc = "sp_hset"
  /\ meta' = [meta EXCEPT ![ith[t].c].priority = ith[t].prio]
  /\ ith' = [ith EXCEPT ![t] =
       IF PriorityRank[ith[t].prio] > PriorityRank[ith[t].old]
         THEN ITrimNext(ith[t], TierOrder)
         ELSE ISetPriorityDone(ith[t])]
  /\ UNCHANGED <<now, idx, rec, popped, given, watchSent>>
  /\ UNCHANGED nonInv

\* _trim_excess, lines 80-86: ZCARD and the excess over the new cap.
Inv_trim_excess_zcard(t) ==
  /\ ith[t].pc = "trim_zcard"
  /\ LET l      == ith[t]
         tier   == Head(l.tiers)
         excess == ZCard(idx[l.c][tier]) - BUDGET_CAPS[l.prio][tier]
     IN ith' = [ith EXCEPT ![t] =
          IF excess <= 0 THEN ITrimNext(l, Tail(l.tiers))
          ELSE [l EXCEPT !.pc = "trim_zpopmax", !.n = excess]]
  /\ UNCHANGED <<now, meta, idx, rec, popped, given, watchSent>>
  /\ UNCHANGED nonInv

\* _trim_excess, line 88: ZPOPMAX of the excess.
Inv_trim_excess_zpopmax(t) ==
  /\ ith[t].pc = "trim_zpopmax"
  /\ LET l       == ith[t]
         tier    == Head(l.tiers)
         removed == ZPopMax(idx[l.c][tier], l.n)
     IN /\ idx' = [idx EXCEPT ![l.c][tier] = ZRemove(@, SeqSet(removed))]
        /\ ith' = ISet(t, IF removed = <<>> THEN ITrimNext(l, Tail(l.tiers))
                          ELSE [l EXCEPT !.pc = "trim_delete", !.todo = removed],
                       l.c, IF removed = <<>> THEN {} ELSE {tier})
  /\ UNCHANGED <<now, meta, rec, popped, given, watchSent>>
  /\ UNCHANGED nonInv

\* _trim_excess, lines 90-93: the DELETEs of the pipeline, one command each,
\* in the order ZPOPMAX returned the members.
Inv_trim_excess_delete(t) ==
  /\ ith[t].pc = "trim_delete"
  /\ LET l == ith[t]
     IN /\ rec' = [rec EXCEPT ![l.c][Head(l.todo)] = IRecAbsent]
        /\ ith' = [ith EXCEPT ![t] =
             IF Len(l.todo) = 1 THEN ITrimNext(l, Tail(l.tiers))
             ELSE [l EXCEPT !.todo = Tail(@)]]
  /\ UNCHANGED <<now, meta, idx, popped, given, watchSent>>
  /\ UNCHANGED nonInv

\* store_key, lines 166-175: validation, _get_priority, the cap of the tier;
\* a tier with cap 0 raises BudgetExceededError(contact_id, coin_category, 0, 0)
\* before any command on the index.
Inv_store_key_call(t, c, k, cat) ==
  /\ ith[t].pc = "idle"
  /\ ith' = [ith EXCEPT ![t] =
       IF cat \notin Tiers THEN IDone("store_key", "InvalidCoinCategory")
       ELSE IF meta[c] = MAbsent THEN IDone("store_key", "ContactNotRegistered")
       ELSE IF Inv_cap_is_zero(BUDGET_CAPS[meta[c].priority][cat])
              THEN IBudgetExceeded("store_key", 0, 0)
       ELSE [IIdle EXCEPT !.pc = "store_watch", !.op = "store_key", !.c = c,
                          !.key = k, !.cat = cat, !.prio = meta[c].priority]]
  /\ UNCHANGED <<now, meta, idx, rec, popped, given, watchSent>>
  /\ UNCHANGED nonInv

Inv_store_key_get_priority(t) ==
  \E c \in Contacts, k \in Keys, cat \in ICategories : Inv_store_key_call(t, c, k, cat)

\* store_key, line 178: self.db.watch(idx) on the client.  watchSent tells
\* whether the call puts a WATCH on the connection that later runs the
\* MULTI/EXEC of the pipeline; a client whose watch() only warns that WATCH
\* is to be called from a Pipeline object sends nothing.
Inv_store_key_watch(t) ==
  /\ ith[t].pc = "store_watch"
  /\ ith' = [ith EXCEPT ![t] =
       [@ EXCEPT !.pc = "store_zcard",
                 !.watch = IF watchSent THEN ith[t].cat ELSE None,
                 !.dirty = FALSE]]
  /\ UNCHANGED <<now, meta, idx, rec, popped, given, watchSent>>
  /\ UNCHANGED nonInv

\* store_key, lines 179-186: ZCARD, the cap check, the entry with its
\* fetched_at.
Inv_store_key_zcard(t) ==
  /\ ith[t].pc = "store_zcard"
  /\ LET l == ith[t]
     IN ith' = [ith EXCEPT ![t] =
          IF Inv_budget_full(ZCard(idx[l.c][l.cat]), BUDGET_CAPS[l.prio][l.cat])
            THEN IBudgetExceeded("store_key", ZCard(idx[l.c][l.cat]),
                                 BUDGET_CAPS[l.prio][l.cat])
            ELSE [l EXCEPT !.pc = "store_exec", !.t0 = now]]
  /\ UNCHANGED <<now, meta, idx, rec, popped, given, watchSent>>
  /\ UNCHANGED nonInv

\* The writes of the MULTI/EXEC of store_key: HSET of the record, ZADD of
\* the key id with score fetched_at.
Inv_store_rec(r, c, k, cat, at) == [r EXCEPT ![c][k] = Inv_serialize_entry(cat, at)]
Inv_store_idx(i, c, k, cat, at) == [i EXCEPT ![c][cat][k] = at]

\* store_key, lines 189-193: the MULTI/EXEC goes through.  fetched_at was
\* read from the clock between the ZCARD and the EXEC.  A ZADD that finds
\* the member with the same score changes nothing and touches no watch.
Inv_store_key_exec(t) ==
  /\ ith[t].pc = "store_exec"
  /\ ~ ith[t].dirty
  /\ LET l == ith[t]
     IN \E at \in l.t0..now :
          /\ rec' = Inv_store_rec(rec, l.c, l.key, l.cat, at)
          /\ idx' = Inv_store_idx(idx, l.c, l.key, l.cat, at)
          /\ ith' = ISet(t, IDone("store_key", "True"), l.c,
                         IF idx[l.c][l.cat][l.key] = at THEN {} ELSE {l.cat})
          /\ popped' = [popped EXCEPT ![l.c] = [T \in Tiers |-> 0 - 1]]
  /\ UNCHANGED <<now, meta, given, watchSent>>
  /\ UNCHANGED nonInv

\* A retry loop with no last attempt.
Inv_retries_left_always(attempt) == attempt >= 0

\* store_key, line 177: for attempt in range(INV_OPTIMISTIC_LOCK_RETRIES);
\* attempt is the number of the attempt that failed, from 0.
Inv_retries_left(attempt) == attempt + 1 < INV_OPTIMISTIC_LOCK_RETRIES

\* store_key, lines 194-197: EXEC is refused because the watched index was
\* written; the next attempt, or ConcurrencyError after the last one.
Inv_store_key_watch_error(t) ==
  /\ ith[t].pc = "store_exec"
  /\ ith[t].dirty
  /\ ith' = [ith EXCEPT ![t] =
       IF Inv_retries_left(ith[t].n)
         THEN [@ EXCEPT !.pc = "store_watch", !.n = @ + 1, !.watch = None,
                        !.dirty = FALSE]
         ELSE IDone("store_key", "ConcurrencyError")]
  /\ UNCHANGED <<now, meta, idx, rec, popped, given, watchSent>>
  /\ UNCHANGED nonInv

\* The locals at the head of the loop of select_coin over the tiers left,
\* or after the loop.
ISelectNext(l, tiers) ==
  IF tiers = <<>> THEN [IDone("select_coin", "None") EXCEPT !.cat = l.cat, !.first = l.first]
  ELSE [l EXCEPT !.pc = "pop_zpopmin", !.tiers = tiers]

\* The first tier of a list whose index has a member, None when there is none.
RECURSIVE FirstNonEmpty(_, _)
FirstNonEmpty(c, tiers) ==
  IF tiers = <<>> THEN None
  ELSE IF ZCard(idx[c][Head(tiers)]) > 0 THEN Head(tiers)
  ELSE FirstNonEmpty(c, Tail(tiers))

\* select_coin, lines 204-207: validation, _get_priority, the tiers to try.
Inv_select_coin_get_priority(t) ==
  \E c \in Contacts, desired \in ICategories :
    /\ ith[t].pc = "idle"
    /\ ith' = [ith EXCEPT ![t] =
         IF desired \notin Tiers THEN IDone("select_coin", "InvalidCoinCategory")
         ELSE IF meta[c] = MAbsent THEN IDone("select_coin", "ContactNotRegistered")
         ELSE [IIdle EXCEPT !.pc = "pop_zpopmin", !.op = "select_coin", !.c = c,
                            !.cat = desired,
                            !.tiers = <<desired>> \o TIER_FALLBACK[desired],
                            !.first = FirstNonEmpty(c, <<desired>> \o TIER_FALLBACK[desired])]]
    /\ UNCHANGED <<now, meta, idx, rec, popped, given, watchSent>>
    /\ UNCHANGED nonInv

\* _pop_from_tier, lines 59-65: ZPOPMIN of one member.
Inv_pop_from_tier_zpopmin(t) ==
  /\ ith[t].pc = "pop_zpopmin"
  /\ LET l    == ith[t]
         tier == Head(l.tiers)
         z    == idx[l.c][tier]
     IN IF ZMembers(z) = {}
          THEN /\ ith' = [ith EXCEPT ![t] = ISelectNext(l, Tail(l.tiers))]
               /\ idx' = idx
          ELSE /\ idx' = [idx EXCEPT ![l.c][tier] = ZPopMin(z)]
               /\ ith' = ISet(t, [l EXCEPT !.pc = "pop_hgetall", !.key = ZMin(z),
                                           !.from = tier], l.c, {tier})
  /\ UNCHANGED <<now, meta, rec, popped, given, watchSent>>
  /\ UNCHANGED nonInv

\* _pop_from_tier, lines 67-70: HGETALL of the record; no record, no entry.
Inv_pop_from_tier_hgetall(t) ==
  /\ ith[t].pc = "pop_hgetall"
  /\ LET l == ith[t]
         data == rec[l.c][l.key]
     IN ith' = [ith EXCEPT ![t] =
          IF data = IRecAbsent THEN ISelectNext([l EXCEPT !.key = 0, !.from = None],
                                                Tail(l.tiers))
          ELSE [l EXCEPT !.pc = "pop_delete", !.rcat = data.coin_category,
                         !.fat = data.fetched_at]]
  /\ UNCHANGED <<now, meta, idx, rec, popped, given, watchSent>>
  /\ UNCHANGED nonInv

\* _pop_from_tier, line 71: DEL of the record.
Inv_pop_from_tier_delete(t) ==
  /\ ith[t].pc = "pop_delete"
  /\ rec' = [rec EXCEPT ![ith[t].c][ith[t].key] = IRecAbsent]
  /\ ith' = [ith EXCEPT ![t] = [@ EXCEPT !.pc = "sel_hset"]]
  /\ UNCHANGED <<now, meta, idx, popped, given, watchSent>>
  /\ UNCHANGED nonInv

\* select_coin, lines 211-213: HSET last_msg_at, the entry is returned.
Inv_select_coin_hset(t) ==
  /\ ith[t].pc = "sel_hset"
  /\ meta' = [meta EXCEPT ![ith[t].c].last_msg_at = now]
  /\ ith' = [ith EXCEPT ![t] = IEntry("select_coin", ith[t])]
  /\ popped' = [popped EXCEPT ![ith[t].c][ith[t].from] = ith[t].fat]
  /\ UNCHANGED <<now, idx, rec, given, watchSent>>
  /\ UNCHANGED nonInv

\* consume_key, lines 221-227: HGET coin_category of the record.
Inv_consume_key_hget(t) ==
  \E c \in Contacts, k \in Keys :
    /\ ith[t].pc = "idle"
    /\ ith' = [ith EXCEPT ![t] =
         IF rec[c][k] = IRecAbsent THEN IDone("consume_key", "False")
         ELSE [IIdle EXCEPT !.pc = "con_delete", !.op = "consume_key", !.c = c,
                            !.key = k, !.rcat = rec[c][k].coin_category]]
    /\ UNCHANGED <<now, meta, idx, rec, popped, given, watchSent>>
    /\ UNCHANGED nonInv

\* consume_key, line 229: DEL of the record, first command of the pipeline.
Inv_consume_key_delete(t) ==
  /\ ith[t].pc = "con_delete"
  /\ rec' = [rec EXCEPT ![ith[t].c][ith[t].key] = IRecAbsent]
  /\ ith' = [ith EXCEPT ![t] = [@ EXCEPT !.pc = "con_zrem"]]
  /\ UNCHANGED <<now, meta, idx, popped, given, watchSent>>
  /\ UNCHANGED nonInv

\* consume_key, lines 230-232: ZREM from the index of the category read;
\* the call returns True for its key id.
Inv_consume_key_zrem(t) ==
  /\ ith[t].pc = "con_zrem"
  /\ LET l == ith[t]
     IN /\ idx' = [idx EXCEPT ![l.c][l.rcat][l.key] = ZAbsent]
        /\ ith' = ISet(t, [IDone("consume_key", "True") EXCEPT !.key = l.key], l.c,
                       IF idx[l.c][l.rcat][l.key] = ZAbsent THEN {} ELSE {l.rcat})
  /\ UNCHANGED <<now, meta, rec, popped, given, watchSent>>
  /\ UNCHANGED nonInv

(***************************************************************************)
(* The garbage collector (src/AQM_Database/aqm_db/garbage_collector.py).    *)
(* A SCAN of the meta keys returns the one contact of the model.            *)
(***************************************************************************)
InactiveDays == {0, 1}

\* The locals at the head of the loop of _delete_all_keys_for_contact over
\* the tiers left, or, after the loop, at set_contact_priority(c, "STRANGER").
IGcNext(l, tiers) ==
  IF tiers = <<>> THEN [l EXCEPT !.pc = "gc_set_priority", !.tiers = <<>>, !.todo = <<>>]
  ELSE [l EXCEPT !.pc = "gc_zrange", !.tiers = tiers, !.todo = <<>>]

\* _is_inactive, lines 16-17, with the clock in days.
Gc_is_inactive(last_msg_at, inactive_days) == last_msg_at < now - inactive_days

\* Lines 60-62 and 88-92: the bytes of the entries get_inventory counts.
Gc_bytes_freed(summary) ==
  summary["GOLD"] * COIN_SIZE_BYTES["GOLD"]
    + summary["SILVER"] * COIN_SIZE_BYTES["SILVER"]
    + summary["BRONZE"] * COIN_SIZE_BYTES["BRONZE"]

\* A dry run that counts the GOLD entries only.
Gc_dry_run_result_gold(c, days) ==
  IF meta[c] = MAbsent \/ ~ Gc_is_inactive(meta[c].last_msg_at, days) THEN GCZero
  ELSE LET summary == Inv_get_inventory(c)
       IN GCResult(1, summary["GOLD"], Gc_bytes_freed(summary))

\* dry_run, lines 113-142, for the contact the SCAN returns: get_contact_meta,
\* the inactivity test, get_inventory and the sums.
Gc_dry_run_result(c, days) ==
  IF meta[c] = MAbsent \/ ~ Gc_is_inactive(meta[c].last_msg_at, days) THEN GCZero
  ELSE LET summary == Inv_get_inventory(c)
       IN GCResult(1, summary["GOLD"] + summary["SILVER"] + summary["BRONZE"],
                   Gc_bytes_freed(summary))

\* dry_run: reads only.
Gc_dry_run(t) ==
  \E c \in Contacts, days \in InactiveDays :
    /\ ith[t].pc = "idle"
    /\ ith' = [ith EXCEPT ![t] =
         [IDone("dry_run", "GCResult") EXCEPT !.result = Gc_dry_run_result(c, days)]]
    /\ UNCHANGED <<now, meta, idx, rec, popped, given, watchSent>>
    /\ UNCHANGED nonInv

\* The state a garbage_collect call starts in, for the contact of the SCAN.
Gc_pre(c, days) ==
  [inactive |-> meta[c] # MAbsent /\ Gc_is_inactive(meta[c].last_msg_at, days),
   had      |-> Cardinality({k \in DOMAIN rec[c] : rec[c][k] # IRecAbsent}),
   dry      |-> Gc_dry_run_result(c, days)]

\* garbage_collect, lines 47-62, for the contact the SCAN returns:
\* get_contact_meta, the inactivity test, get_inventory and bytes_freed.
Gc_garbage_collect_get_meta(t) ==
  \E c \in Contacts, days \in InactiveDays :
    /\ ith[t].pc = "idle"
    /\ ith' = [ith EXCEPT ![t] =
         IF meta[c] = MAbsent \/ ~ Gc_is_inactive(meta[c].last_msg_at, days)
           THEN [IDone("garbage_collect", "GCResult") EXCEPT !.pre = Gc_pre(c, days)]
           ELSE IGcNext([IIdle EXCEPT !.op = "garbage_collect", !.c = c,
                           !.result = GCResult(0, 0, Gc_bytes_freed(Inv_get_inventory(c))),
                           !.pre = Gc_pre(c, days)],
                        TierOrder)]
    /\ UNCHANGED <<now, meta, idx, rec, popped, given, watchSent>>
    /\ UNCHANGED nonInv

\* collect_single_contact, lines 83-85: get_contact_meta.
Gc_collect_single_contact_get_meta(t) ==
  \E c \in Contacts :
    /\ ith[t].pc = "idle"
    /\ ith' = [ith EXCEPT ![t] =
         IF meta[c] = MAbsent
           THEN IDone("collect_single_contact", "ContactNotRegistered")
           ELSE IGcNext([IIdle EXCEPT !.op = "collect_single_contact", !.c = c,
                           !.result = GCResult(0, 0, Gc_bytes_freed(Inv_get_inventory(c)))],
                        TierOrder)]
    /\ UNCHANGED <<now, meta, idx, rec, popped, given, watchSent>>
    /\ UNCHANGED nonInv

\* _delete_all_keys_for_contact, lines 23-27: ZRANGE of the index.
Gc_delete_all_keys_zrange(t) ==
  /\ ith[t].pc = "gc_zrange"
  /\ LET l == ith[t]
         key_ids == ZRange(idx[l.c][Head(l.tiers)])
     IN ith' = [ith EXCEPT ![t] =
          IF key_ids = <<>> THEN IGcNext(l, Tail(l.tiers))
          ELSE [l EXCEPT !.pc = "gc_delete", !.todo = key_ids]]
  /\ UNCHANGED <<now, meta, idx, rec, popped, given, watchSent>>
  /\ UNCHANGED nonInv

\* _delete_all_keys_for_contact, lines 29-31 and 35: the DELs of the
\* records, one command each; deleted counts every key id of the ZRANGE.
Gc_delete_all_keys_delete(t) ==
  /\ ith[t].pc = "gc_delete"
  /\ LET l == ith[t]
     IN /\ rec' = [rec EXCEPT ![l.c][Head(l.todo)] = IRecAbsent]
        /\ ith' = [ith EXCEPT ![t] =
             IF Len(l.todo) = 1
               THEN [l EXCEPT !.pc = "gc_delete_idx", !.todo = <<>>,
                              !.result.keys_deleted = @ + 1]
               ELSE [l EXCEPT !.todo = Tail(@), !.result.keys_deleted = @ + 1]]
  /\ UNCHANGED <<now, meta, idx, popped, given, watchSent>>
  /\ UNCHANGED nonInv

\* _delete_all_keys_for_contact, lines 32-33: the DEL of the index.
Gc_delete_all_keys_delete_idx(t) ==
  /\ ith[t].pc = "gc_delete_idx"
  /\ LET l == ith[t]
         tier == Head(l.tiers)
     IN /\ idx' = [idx EXCEPT ![l.c][tier] = ZRemove(@, DOMAIN @)]
        /\ ith' = ISet(t, IGcNext(l, Tail(l.tiers)), l.c,
                       IF ZMembers(idx[l.c][tier]) = {} THEN {} ELSE {tier})
  /\ UNCHANGED <<now, meta, rec, popped, given, watchSent>>
  /\ UNCHANGED nonInv

\* Lines 66 and 95: set_contact_priority(contact_id, "STRANGER").
Gc_set_contact_priority_get(t) ==
  /\ ith[t].pc = "gc_set_priority"
  /\ LET l == ith[t]
         n == ISetPriorityGet(l.op, l.c, "STRANGER")
     IN ith' = [ith EXCEPT ![t] =
          IF n.pc # "idle" THEN [n EXCEPT !.result = l.result, !.pre = l.pre]
          ELSE IF n.res = "True" THEN ISetPriorityDone(l)
          ELSE n]
  /\ UNCHANGED <<now, meta, idx, rec, popped, given, watchSent>>
  /\ UNCHANGED nonInv

(***************************************************************************)
(* The bridge (src/AQM_Database/bridge.py).  Its coroutines run as tasks    *)
(* of one event loop: a task runs alone from one await to the next, so one  *)
(* atomic step of a task is its code between two awaits, the synchronous    *)
(* inventory calls included.                                                *)
(***************************************************************************)
\* The device runs the bridge for one requester and caches under a contact
\* the coins of one target user.
BrUsers      == {"bob"}
BrRequesters == {"alice"}

BIdle == [pc |-> "idle", op |-> None, c |-> None, user |-> None, req |-> None,
          cat |-> None, coins |-> <<>>, deficit |-> [T \in Tiers |-> 0],
          tiers |-> <<>>, cached |-> 0, counts |-> [T \in Tiers |-> 0]]

\* A return: the call, the error it raised or OK, and with OK the number of
\* coins it cached; for sync_inventory the dict fetched_counts it returns.
BRet(op, res, cached, counts) ==
  [op |-> op, res |-> res, cached |-> cached, counts |-> counts]

BridgeInit ==
  /\ br = [t \in Threads |-> BIdle]
  /\ bret = BRet(None, None, 0, NoCounts)

\* The orders in which the rows of RETURNING may come.
Orders(S) ==
  {s \in [1..Cardinality(S) -> S] : \A i, j \in 1..Cardinality(S) : i # j => s[i] # s[j]}

\* store_key run to its end with no other command in between (lines 166-197).
Inv_store_key_outcome(i, c, cat) ==
  IF cat \notin Tiers THEN "InvalidCoinCategory"
  ELSE IF meta[c] = MAbsent THEN "ContactNotRegistered"
  ELSE IF Inv_cap_is_zero(BUDGET_CAPS[meta[c].priority][cat]) THEN "BudgetExceeded"
  ELSE IF Inv_budget_full(ZCard(i[c][cat]), BUDGET_CAPS[meta[c].priority][cat])
         THEN "BudgetExceeded"
  ELSE "True"

\* The loop run over the coins from the last one to the first.
RECURSIVE Br_cache_coins_backwards(_, _, _, _, _, _)
Br_cache_coins_backwards(i, r, c, cat, coins, cached) ==
  IF coins = <<>> THEN [idx |-> i, rec |-> r, cached |-> cached, res |-> "OK"]
  ELSE LET out  == Inv_store_key_outcome(i, c, cat)
           last == coins[Len(coins)]
           rest == SubSeq(coins, 1, Len(coins) - 1)
       IN IF out = "True"
            THEN Br_cache_coins_backwards(Inv_store_idx(i, c, last, cat, now),
                                          Inv_store_rec(r, c, last, cat, now),
                                          c, cat, rest, cached + 1)
          ELSE IF out = "BudgetExceeded"
            THEN [idx |-> i, rec |-> r, cached |-> cached, res |-> "OK"]
          ELSE [idx |-> i, rec |-> r, cached |-> cached, res |-> out]

\* fetch_and_cache, lines 39-53: the loop over the coins, to its end or to
\* the first BudgetExceededError (break) or other error (raised).
RECURSIVE Br_cache_coins(_, _, _, _, _, _)
Br_cache_coins(i, r, c, cat, coins, cached) ==
  IF coins = <<>> THEN [idx |-> i, rec |-> r, cached |-> cached, res |-> "OK"]
  ELSE LET out == Inv_store_key_outcome(i, c, cat)
       IN IF out = "True"
            THEN Br_cache_coins(Inv_store_idx(i, c, Head(coins), cat, now),
                                Inv_store_rec(r, c, Head(coins), cat, now),
                                c, cat, Tail(coins), cached + 1)
          ELSE IF out = "BudgetExceeded"
            THEN [idx |-> i, rec |-> r, cached |-> cached, res |-> "OK"]
          ELSE [idx |-> i, rec |-> r, cached |-> cached, res |-> out]

\* fetch_and_cache, line 37, up to the await: fetch_coins is called and its
\* statement runs.
Br_fetch_and_cache_call(t) ==
  \E c \in Contacts, user \in BrUsers, req \in BrRequesters, cat \in SCategories,
     count \in Counts :
    /\ br[t].pc = "idle"
    /\ IF cat \notin Tiers
         THEN /\ bret' = BRet("fetch_and_cache", "InvalidCoinCategory", 0, NoCounts)
              /\ UNCHANGED <<rows, sth, br>>
         ELSE /\ Srv_fetch_stmt(t, user, req, cat, count)
              /\ br' = [br EXCEPT ![t] =
                   [BIdle EXCEPT !.pc = "await", !.op = "fetch_and_cache", !.c = c,
                                 !.cat = cat]]
              /\ bret' = bret
    /\ UNCHANGED <<now, nextRid, delivered, sret, vaultVars, invVars>>

\* The awaited fetch_coins returns: the transaction commits and the task is
\* ready to run again with the coins.
Br_fetch_coins_return(t) ==
  /\ br[t].pc = "await"
  /\ Srv_fetch_commit(t)
  /\ \E s \in Orders(sth[t].got) :
       br' = [br EXCEPT ![t] =
         [@ EXCEPT !.pc = "ready",
                   !.coins = [n \in 1..Len(s) |-> rows[s[n]].key]]]
  /\ bret' = bret
  /\ UNCHANGED <<now, nextRid, sret, vaultVars, invVars>>

\* The tiers of sync_inventory still to visit, from the first with a deficit.
RECURSIVE Br_sync_skip(_, _)
Br_sync_skip(deficit, tiers) ==
  IF tiers = <<>> THEN <<>>
  ELSE IF deficit[Head(tiers)] <= 0 THEN Br_sync_skip(deficit, Tail(tiers))
  ELSE tiers

\* fetch_and_cache, lines 39-53, and for sync_inventory line 106: the coins
\* are cached; fetch_and_cache returns.
Br_fetch_and_cache_store(t) ==
  /\ br[t].pc = "ready"
  /\ LET l   == br[t]
         out == Br_cache_coins(idx, rec, l.c, l.cat, l.coins, 0)
     IN /\ idx' = out.idx
        /\ rec' = out.rec
        /\ popped' = IF out.cached > 0
                       THEN [popped EXCEPT ![l.c] = [T \in Tiers |-> 0 - 1]]
                       ELSE popped
        /\ br' = [br EXCEPT ![t] =
             IF l.op = "fetch_and_cache" \/ out.res # "OK" THEN BIdle
             ELSE [l EXCEPT !.pc = "sync_next", !.coins = <<>>,
                            !.cached = @ + out.cached,
                            !.counts[l.cat] = out.cached,
                            !.tiers = Br_sync_skip(l.deficit, Tail(l.tiers))]]
        /\ bret' = IF l.op = "fetch_and_cache" \/ out.res # "OK"
                    THEN BRet(l.op, out.res, l.cached + out.cached, NoCounts)
                    ELSE bret
  /\ UNCHANGED <<now, meta, ith, given, watchSent, vaultVars, srvVars>>

\* A deficit that leaves the current stock out.
Br_sync_deficit_caps(caps, current) == caps

\* sync_inventory, line 97: deficit = caps[tier] - current[tier].
Br_sync_deficit(caps, current) ==
  [T \in Tiers |-> caps[T] - current[T]]

\* sync_inventory, lines 83-93: get_contact_meta, get_inventory, the
\* deficits against the caps of the priority.
Br_sync_inventory_call(t) ==
  \E c \in Contacts, user \in BrUsers, req \in BrRequesters :
    LET priority == Inv_get_contact_meta(c) IN
    /\ br[t].pc = "idle"
    /\ bret' = IF priority = MAbsent
                 THEN BRet("sync_inventory", "OK", 0, NoCounts)
                 ELSE bret
    /\ br' = [br EXCEPT ![t] =
         IF priority = MAbsent THEN BIdle
         ELSE LET deficit == Br_sync_deficit(BUDGET_CAPS[priority.priority],
                                             Inv_get_inventory(c))
              IN [BIdle EXCEPT !.pc = "sync_next", !.op = "sync_inventory",
                               !.c = c, !.user = user, !.req = req,
                               !.deficit = deficit,
                               !.tiers = Br_sync_skip(deficit, TierOrder)]]
    /\ UNCHANGED <<now, vaultVars, srvVars, invVars>>

\* sync_inventory, lines 96-105: the next tier with a deficit; fetch_and_cache
\* is called for it and runs up to its await.
Br_sync_inventory_fetch(t) ==
  /\ br[t].pc = "sync_next"
  /\ br[t].tiers # <<>>
  /\ LET l == br[t]
     IN /\ Srv_fetch_stmt(t, l.user, l.req, Head(l.tiers), l.deficit[Head(l.tiers)])
        /\ br' = [br EXCEPT ![t] = [l EXCEPT !.pc = "await", !.cat = Head(l.tiers)]]
        /\ bret' = bret
  /\ UNCHANGED <<now, nextRid, delivered, sret, vaultVars, invVars>>

\* sync_inventory, line 108: no tier is left, the counts are returned.
Br_sync_inventory_return(t) ==
  /\ br[t].pc = "sync_next"
  /\ br[t].tiers = <<>>
  /\ br' = [br EXCEPT ![t] = BIdle]
  /\ bret' = BRet("sync_inventory", "OK", br[t].cached, br[t].counts)
  /\ UNCHANGED <<now, vaultVars, srvVars, invVars>>

VaultNext ==
  \/ Tick
  \/ \E t \in Threads :
       \/ Vault_store_key_exists(t, {"blob1"})
       \/ Vault_store_key_exec(t)
       \/ Vault_burn_key_hmget(t)
       \/ Vault_burn_key_exec(t)
       \/ Vault_purge_expired_scan(t)
       \/ Vault_purge_expired_hmget(t)
       \/ Vault_purge_expired_exec(t)
  \/ Vault_key_ttl_expiry
  \/ Vault_burn_grace_expiry

Init ==
  /\ now = 0
  /\ VaultInit
  /\ ServerInit
  /\ InvInit
  /\ BridgeInit

SpecVault == Init /\ [][VaultNext]_vars

(***************************************************************************)
(* The vault read by fetch_key while keys are stored and burned and while   *)
(* the store drops the keys whose TTL has run out.                          *)
(***************************************************************************)
FetchKeyNext ==
  \/ \E t \in Threads :
       \/ Vault_store_key_exists(t, VBlobs)
       \/ Vault_store_key_exec(t)
       \/ Vault_burn_key_hmget(t)
       \/ Vault_burn_key_exec(t)
       \/ Vault_fetch_key(t)
  \/ Vault_key_ttl_expiry
  \/ Vault_burn_grace_expiry

SpecFetchKey == Init /\ [][FetchKeyNext]_vars

ServerNext ==
  \/ Tick
  \/ \E t \in Threads :
       \/ Srv_upload_coins(t)
       \/ Srv_fetch_coins_stmt(t)
       \/ Srv_fetch_coins_commit(t)
       \/ Srv_get_inventory_count(t)
       \/ Srv_purge_stale(t)
       \/ Srv_hard_delete_fetched(t)

SpecServer == Init /\ [][ServerNext]_vars

Spec == SpecVault

(***************************************************************************)
(* The inventory called by one thread: every call returns before the next   *)
(* one starts.                                                              *)
(***************************************************************************)
InvCalls(t) ==
  \/ Inv_register_contact_exists(t)
  \/ Inv_register_contact_hset(t)
  \/ Inv_set_contact_priority_get(t)
  \/ Inv_set_contact_priority_hset(t)
  \/ Inv_trim_excess_zcard(t)
  \/ Inv_trim_excess_zpopmax(t)
  \/ Inv_trim_excess_delete(t)
  \/ Inv_store_key_get_priority(t)
  \/ Inv_store_key_watch(t)
  \/ Inv_store_key_zcard(t)
  \/ Inv_store_key_exec(t)
  \/ Inv_select_coin_get_priority(t)
  \/ Inv_pop_from_tier_zpopmin(t)
  \/ Inv_pop_from_tier_hgetall(t)
  \/ Inv_pop_from_tier_delete(t)
  \/ Inv_select_coin_hset(t)
  \/ Inv_consume_key_hget(t)
  \/ Inv_consume_key_delete(t)
  \/ Inv_consume_key_zrem(t)
  \/ Gc_garbage_collect_get_meta(t)
  \/ Gc_collect_single_contact_get_meta(t)
  \/ Gc_delete_all_keys_zrange(t)
  \/ Gc_delete_all_keys_delete(t)
  \/ Gc_delete_all_keys_delete_idx(t)
  \/ Gc_set_contact_priority_get(t)
  \/ Gc_dry_run(t)

InvSeqNext ==
  \/ Tick
  \/ InvCalls(1)

SpecInvSeq == Init /\ [][InvSeqNext]_vars


VaultQuiescent == \A t \in Threads : vth[t].pc = "idle"

\* The number of ACTIVE entries of a tier.
VaultActiveEntries(T) ==
  Cardinality({k \in VKeys : vault[k].status = "ACTIVE" /\ vault[k].coin_category = T})

(***************************************************************************)
(* Concurrent burn_key calls on keys that store_key left ACTIVE.            *)
(***************************************************************************)
BurnInit ==
  /\ now = 0
  /\ \E cats \in [VKeys -> Tiers] :
       /\ vault = [k \in VKeys |-> Vault_serialize_entry(cats[k], "blob1", 0)]
       /\ stats = [active |-> [T \in Tiers |-> Cardinality({k \in VKeys : cats[k] = T})],
                   total_burned |-> 0, total_expired |-> 0]
  /\ vth = [t \in Threads |-> VIdle]
  /\ vops = 0
  /\ vret = VRet(None, None, None, 0)
  /\ vhist = [k \in VKeys |-> VNoHist]
  /\ ServerInit
  /\ InvInit
  /\ BridgeInit

BurnNext ==
  \/ Tick
  \/ \E t \in Threads :
       \/ Vault_burn_key_hmget(t)
       \/ Vault_burn_key_exec(t)

SpecBurn == BurnInit /\ [][BurnNext]_vars

BurnCalls(k) == vhist[k].ok + vhist[k].already + vhist[k].notfound

BurnInProgress(k) == \E t \in Threads : vth[t].pc = "burn_exec" /\ vth[t].key = k

(***************************************************************************)
(* C3: when two or more burn_key calls have run on the same ACTIVE key and  *)
(* all of them have returned, exactly one has succeeded and every other one *)
(* has failed with KeyAlreadyBurned.                                        *)
(***************************************************************************)
C3_ExactlyOneBurnSucceeds ==
  \A k \in VKeys :
    (BurnCalls(k) >= 2 /\ ~ BurnInProgress(k)) =>
      /\ vhist[k].ok = 1
      /\ vhist[k].already = BurnCalls(k) - 1

(***************************************************************************)
(* Concurrent fetch_coins calls on a pool that upload_coins calls have      *)
(* filled: record ids and upload times grow together.                       *)
(***************************************************************************)
ServerFilledWith(U, cats) ==
  /\ \E n \in 0..MaxRows :
     \E f \in [1..n -> [user : U, key : Keys, cat : cats, up : Times]] :
       /\ \A i, j \in 1..n : i < j =>
            /\ f[i].up <= f[j].up
            /\ <<f[i].user, f[i].key>> # <<f[j].user, f[j].key>>
       /\ rows = [r \in Rids |->
            IF r <= n THEN [user |-> f[r].user, key |-> f[r].key, cat |-> f[r].cat,
                            up |-> f[r].up, fby |-> None, fat |-> 0 - 1, lock |-> 0]
            ELSE RAbsent]
       /\ nextRid = n + 1
       /\ now \in Times
       /\ \A i \in 1..n : f[i].up <= now
  /\ sth = [t \in Threads |-> SIdle]
  /\ sret = SRet(None, None, 0, {}, NoCounts)
  /\ delivered = [r \in Rids |-> 0]

ServerFilled(U) == ServerFilledWith(U, UploadTiers)

FetchInit ==
  /\ VaultInit
  /\ InvInit
  /\ BridgeInit
  /\ ServerFilled(Users)

FetchNext ==
  \/ Tick
  \/ \E t \in Threads :
       \/ Srv_fetch_coins_stmt(t)
       \/ Srv_fetch_coins_commit(t)

SpecFetch == FetchInit /\ [][FetchNext]_vars

\* The rows a fetch_coins call holds or has returned.
Claimed(r) == delivered[r] > 0 \/ \E t \in Threads : r \in sth[t].got

(***************************************************************************)
(* C2: in every interleaving of concurrent fetch_coins calls no row is      *)
(* returned by more than one call, and the key_ids the calls return for a   *)
(* user are pairwise different.                                             *)
(***************************************************************************)
C2_FetchesDisjoint ==
  /\ \A r \in Rids : delivered[r] <= 1
  /\ \A t, u \in Threads : t # u => sth[t].got \cap sth[u].got = {}
  /\ \A t \in Threads : \A r \in sth[t].got : delivered[r] = 0
  /\ \A r, q \in Rids :
       (Claimed(r) /\ Claimed(q) /\ r # q /\ rows[r].user = rows[q].user)
          => rows[r].key # rows[q].key

\* Two calls on the same (user, category) hold a row each at the same time.
C2_Witness ==
  \E t, u \in Threads : \E r \in sth[t].got : \E q \in sth[u].got :
    /\ t # u
    /\ sth[t].pc = "fetch_commit" /\ sth[u].pc = "fetch_commit"
    /\ rows[r].user = rows[q].user /\ rows[r].cat = rows[q].cat

(***************************************************************************)
(* C6: once fetched_by of a row is set it never changes (the row is only    *)
(* ever deleted), and from then on no fetch_coins call selects the row and  *)
(* get_inventory_count does not count it.                                   *)
(***************************************************************************)
C6_ClaimedStaysClaimed ==
  \A r \in Rids : rows[r].fby # None =>
    /\ rows'[r] = RAbsent \/ rows'[r] = rows[r]
    /\ \A t \in Threads : r \notin sth'[t].got

C6_ClaimedInvisible ==
  \A r \in Rids : rows[r].fby # None =>
    /\ rows[r].lock = 0
    /\ \A t \in Threads : r \notin sth[t].got
    /\ r \notin Srv_fetch_candidates(rows[r].user, rows[r].cat)
    /\ \A u \in Users, T \in Tiers :
         Srv_inventory_count(u)[T] <=
           Cardinality({q \in Rids : rows[q].user = u /\ rows[q].cat = T /\ rows[q].fby = None})

C6_FetchedByWriteOnce ==
  [](C6_ClaimedInvisible) /\ [][C6_ClaimedStaysClaimed]_vars

\* A row is claimed while a later fetch_coins call on the same user and
\* category holds another row and get_inventory_count has just returned.
C6_Witness ==
  \E r \in Rids, t \in Threads : \E q \in sth[t].got :
    /\ rows[r].fby # None
    /\ rows[q].user = rows[r].user /\ rows[q].cat = rows[r].cat
    /\ sret.op = "get_inventory_count"

(***************************************************************************)
(* Concurrent store_key calls with distinct key ids for a registered        *)
(* contact whose priority stays as it is.                                   *)
(***************************************************************************)
StoreInit ==
  /\ now = 0
  /\ VaultInit
  /\ ServerInit
  /\ \E p \in {"BESTIE", "MATE"} :
       meta = [c \in Contacts |-> [priority |-> p, display_name |-> "", last_msg_at |-> 0]]
  /\ idx = [c \in Contacts |-> [T \in Tiers |-> ZEmpty]]
  /\ rec = [c \in Contacts |-> [k \in Keys |-> IRecAbsent]]
  /\ ith = [t \in Threads |-> IIdle]
  /\ popped = [c \in Contacts |-> [T \in Tiers |-> 0 - 1]]
  /\ given = [tier |-> None, keys |-> {}]
  /\ watchSent \in BOOLEAN
  /\ BridgeInit

\* No record of the contact and no call in progress has the key id.
FreshKey(c, k) ==
  /\ rec[c][k] = IRecAbsent
  /\ \A u \in Threads : ~ (ith[u].pc # "idle" /\ ith[u].c = c /\ ith[u].key = k)

Store_fresh_key(t) ==
  /\ Inv_store_key_get_priority(t)
  /\ ith'[t].pc = "store_watch" => FreshKey(ith'[t].c, ith'[t].key)

StoreNext ==
  \/ Tick
  \/ \E t \in Threads :
       \/ Store_fresh_key(t)
       \/ Inv_store_key_watch(t)
       \/ Inv_store_key_zcard(t)
       \/ Inv_store_key_exec(t)
       \/ Inv_store_key_watch_error(t)

SpecStore == StoreInit /\ [][StoreNext]_vars

(***************************************************************************)
(* C1: with concurrent store_key calls with distinct key ids and a fixed    *)
(* priority, the index of a tier with cap C > 0 never holds more than C     *)
(* key ids.                                                                 *)
(***************************************************************************)
C1_ConcurrentStoreWithinCap ==
  \A c \in Contacts, T \in Tiers :
    BUDGET_CAPS[meta[c].priority][T] > 0 =>
      ZCard(idx[c][T]) <= BUDGET_CAPS[meta[c].priority][T]

(***************************************************************************)
(* Concurrent select_coin calls, one per thread, for a tier that store_key  *)
(* calls have filled; the other tiers are empty and nothing is stored       *)
(* meanwhile.                                                               *)
(***************************************************************************)
FilledTierInit ==
  /\ VaultInit
  /\ ServerInit
  /\ now \in Times
  /\ \E p \in {"BESTIE", "MATE"}, T0 \in Tiers, S \in SUBSET Keys :
     \E f \in [S -> Times] :
       /\ Cardinality(S) <= BUDGET_CAPS[p][T0]
       /\ Cardinality(S) <= NumThreads
       /\ \A k \in S : f[k] <= now
       /\ meta = [c \in Contacts |-> [priority |-> p, display_name |-> "", last_msg_at |-> 0]]
       /\ idx = [c \in Contacts |-> [T \in Tiers |->
            IF T = T0 THEN [k \in Keys |-> IF k \in S THEN f[k] ELSE ZAbsent]
            ELSE ZEmpty]]
       /\ rec = [c \in Contacts |-> [k \in Keys |->
            IF k \in S THEN Inv_serialize_entry(T0, f[k]) ELSE IRecAbsent]]
       /\ given = [tier |-> T0, keys |-> S]
  /\ ith = [t \in Threads |-> IIdle]
  /\ popped = [c \in Contacts |-> [T \in Tiers |-> 0 - 1]]
  /\ BridgeInit

SelectInit == FilledTierInit /\ watchSent = FALSE

Select_given_tier(t) ==
  /\ ith[t].op = None
  /\ Inv_select_coin_get_priority(t)
  /\ ith'[t].cat = given.tier

SelectNext ==
  \/ Tick
  \/ \E t \in Threads :
       \/ Select_given_tier(t)
       \/ Inv_pop_from_tier_zpopmin(t)
       \/ Inv_pop_from_tier_hgetall(t)
       \/ Inv_pop_from_tier_delete(t)
       \/ Inv_select_coin_hset(t)

SpecSelect == SelectInit /\ [][SelectNext]_vars

\* The select_coin calls that have returned, and those that returned an entry.
SelectReturned == {t \in Threads : ith[t].pc = "idle" /\ ith[t].op = "select_coin"}
SelectHits == {t \in SelectReturned : ith[t].res = "entry"}

(***************************************************************************)
(* C7: of n >= k concurrent select_coin calls for a tier that holds k       *)
(* entries, exactly k return an entry, with pairwise distinct key ids taken *)
(* from that tier, and the other calls return nothing.                      *)
(***************************************************************************)
C7_EachEntryReturnedOnce ==
  /\ \A t, u \in SelectHits : t # u => ith[t].key # ith[u].key
  /\ \A t \in SelectHits : ith[t].key \in given.keys /\ ith[t].from = given.tier
  /\ SelectReturned = Threads =>
       /\ Cardinality(SelectHits) = Cardinality(given.keys)
       /\ \A t \in Threads \ SelectHits : ith[t].res = "None"

\* Two calls have each popped a key id of the tier and are both in progress.
C7_Witness ==
  \E t, u \in Threads :
    /\ t # u
    /\ ith[t].pc = "pop_hgetall" /\ ith[u].pc = "pop_hgetall"
    /\ ith[t].from = given.tier /\ ith[u].from = given.tier

(***************************************************************************)
(* Bridge tasks of one event loop, for a contact whose priority stays as it *)
(* is, against a server pool that upload_coins calls have filled.           *)
(***************************************************************************)
BridgeSpecInit ==
  /\ VaultInit
  /\ ServerFilled(BrUsers)
  /\ \E m \in {MAbsent} \cup [priority : Priorities, display_name : {""}, last_msg_at : {0}] :
       meta = [c \in Contacts |-> m]
  /\ idx = [c \in Contacts |-> [T \in Tiers |-> ZEmpty]]
  /\ rec = [c \in Contacts |-> [k \in Keys |-> IRecAbsent]]
  /\ ith = [t \in Threads |-> IIdle]
  /\ popped = [c \in Contacts |-> [T \in Tiers |-> 0 - 1]]
  /\ given = [tier |-> None, keys |-> {}]
  /\ watchSent = FALSE
  /\ BridgeInit

BridgeNext ==
  \/ Tick
  \/ \E t \in Threads :
       \/ Br_fetch_and_cache_call(t)
       \/ Br_fetch_coins_return(t)
       \/ Br_fetch_and_cache_store(t)
       \/ Br_sync_inventory_call(t)
       \/ Br_sync_inventory_fetch(t)
       \/ Br_sync_inventory_return(t)

SpecBridge == BridgeSpecInit /\ [][BridgeNext]_vars

(***************************************************************************)
(* C5: whatever the interleaving of fetch_and_cache and sync_inventory      *)
(* tasks on a contact of fixed priority, the index of each tier holds at    *)
(* most BUDGET_CAPS[priority][tier] key ids.                                *)
(***************************************************************************)
C5_BridgeWithinCap ==
  \A c \in Contacts : meta[c] # MAbsent =>
    \A T \in Tiers : ZCard(idx[c][T]) <= BUDGET_CAPS[meta[c].priority][T]

\* A tier is at its cap after one task cached into it, while another task
\* holds coins of that tier it has fetched and not yet cached.
C5_Witness ==
  \E t, u \in Threads :
    /\ t # u
    /\ br[u].pc = "ready" /\ br[u].coins # <<>>
    /\ meta[br[u].c] # MAbsent
    /\ BUDGET_CAPS[meta[br[u].c].priority][br[u].cat] > 0
    /\ ZCard(idx[br[u].c][br[u].cat]) = BUDGET_CAPS[meta[br[u].c].priority][br[u].cat]
    /\ br[t].pc = "idle"
    /\ bret.cached > 0

InvQuiescent == \A t \in Threads : ith[t].pc = "idle"

(***************************************************************************)
(* C4: between inventory operations, for every registered contact and every *)
(* tier the index holds at most BUDGET_CAPS[priority][tier] key ids.        *)
(***************************************************************************)
C4_IndexWithinBudget ==
  InvQuiescent =>
    \A c \in Contacts : meta[c] # MAbsent =>
      \A T \in Tiers : ZCard(idx[c][T]) <= BUDGET_CAPS[meta[c].priority][T]

(***************************************************************************)
(* C8: between two store_key calls, the entries that successive select_coin *)
(* calls take from one tier of one contact come with non-decreasing         *)
(* fetched_at.                                                              *)
(***************************************************************************)
C8_SelectOldestFirst ==
  [][\A c \in Contacts, T \in Tiers :
       popped'[c][T] # 0 - 1 => popped'[c][T] >= popped[c][T]]_vars

\* The tiers select_coin may take an entry from when desired is asked for.
TiersToTry(desired) == {desired} \cup SeqSet(TIER_FALLBACK[desired])

(***************************************************************************)
(* C9: a select_coin call returns an entry of the first non-empty tier      *)
(* among the desired tier and its fallbacks, nothing when they are all      *)
(* empty, and never an entry of a tier higher than the desired one.         *)
(***************************************************************************)
C9_SelectFallbackOrder ==
  \A t \in Threads :
    (ith[t].pc = "idle" /\ ith[t].op = "select_coin"
       /\ ith[t].res \in {"entry", "None"}) =>
      /\ ith[t].res = "None" => ith[t].first = None
      /\ ith[t].res = "entry" =>
           /\ ith[t].from = ith[t].first
           /\ ith[t].rcat = ith[t].first
           /\ ith[t].rcat \in TiersToTry(ith[t].cat)

(***************************************************************************)
(* C10: once no vault operation is in progress, active_T equals the number  *)
(* of entries with status ACTIVE and coin_category T, for every tier T.     *)
(***************************************************************************)
C10_ActiveCountersMatch ==
  VaultQuiescent => \A T \in Tiers : stats.active[T] = VaultActiveEntries(T)

(***************************************************************************)
(* C11: the status of a key id never moves from BURNED to ACTIVE, and a key *)
(* id enters ACTIVE at most once over the life of the vault.                *)
(***************************************************************************)
C11_StatusMonotone ==
  /\ [][\A k \in VKeys : vault[k].status = "BURNED" => vault'[k].status # "ACTIVE"]_vars
  /\ [](\A k \in VKeys : vhist[k].active <= 1)

\* The sum of one counter of the history over a set of key ids.
RECURSIVE VHistSum(_, _)
VHistSum(S, f) ==
  IF S = {} THEN 0
  ELSE LET k == CHOOSE x \in S : TRUE IN vhist[k][f] + VHistSum(S \ {k}, f)

(***************************************************************************)
(* C12: once no vault operation is in progress, total_burned equals the     *)
(* number of burn_key calls that returned success and total_expired equals  *)
(* the number of entries purge_expired deleted.                             *)
(***************************************************************************)
C12_TotalsMatchHistory ==
  VaultQuiescent =>
    /\ stats.total_burned = VHistSum(VKeys, "ok")
    /\ stats.total_expired = VHistSum(VKeys, "purged")

(***************************************************************************)
(* C17: fetch_key returns the entry, with the blob that was stored, when    *)
(* the key exists with status ACTIVE, and nothing when the key is absent or *)
(* BURNED.                                                                  *)
(***************************************************************************)
C17_FetchKeyIffActive ==
  [][(vops' = vops + 1 /\ vth' = vth /\ vret'.op = "fetch_key") =>
       LET e == vault[vret'.key] IN
         /\ vret'.res # None <=> e.status = "ACTIVE"
         /\ vret'.res # None => vret'.res = e.encrypted_blob]_vars

\* store_key, burn_key, then fetch_key inside the grace window.
C17_Witness ==
  /\ vret.op = "fetch_key"
  /\ vret.res = None
  /\ vault[vret.key].status = "BURNED"
  /\ vault[vret.key].encrypted_blob = "blob2"

(***************************************************************************)
(* C13: fetch_and_cache stores the coins it claimed in the order returned   *)
(* and stops at the first BudgetExceeded: what it caches and returns is a   *)
(* prefix of the claimed coins, the prefix ends only where the tier is at   *)
(* its cap, and the coins after it are not cached and stay claimed.         *)
(***************************************************************************)
C13_CachesPrefixOfClaimed ==
  [][\A t \in Threads :
       (br[t].pc = "ready" /\ br[t].op = "fetch_and_cache" /\ br'[t].pc = "idle"
          /\ bret'.res = "OK") =>
         LET l      == br[t]
             n      == bret'.cached
             before == ZMembers(idx[l.c][l.cat])
             after  == ZMembers(idx'[l.c][l.cat])
         IN /\ n <= Len(l.coins)
            /\ after \ before = {l.coins[i] : i \in 1..n}
            /\ \A i \in (n + 1)..Len(l.coins) : l.coins[i] \notin after
            /\ n < Len(l.coins) =>
                 Cardinality(after) >= BUDGET_CAPS[meta[l.c].priority][l.cat]
            /\ \A r \in Rids : rows[r].fby # None => rows'[r] = rows[r]]_vars

\* Two coins of one tier were claimed; the first was cached, the second was
\* not: the tier was at its cap.
C13_Witness ==
  /\ bret.op = "fetch_and_cache" /\ bret.res = "OK" /\ bret.cached = 1
  /\ \A t \in Threads : br[t].pc = "idle"
  /\ \E c \in Contacts, r1, r2 \in Rids :
       /\ r1 < r2
       /\ rows[r1].fby # None /\ rows[r2].fby # None
       /\ rows[r1].cat = rows[r2].cat
       /\ idx[c][rows[r1].cat][rows[r1].key] # ZAbsent
       /\ idx[c][rows[r2].cat][rows[r2].key] = ZAbsent

(***************************************************************************)
(* sync_inventory run once, with nothing else running, for a registered     *)
(* contact whose inventory already caches some coins.  The key ids cached   *)
(* are ids the server pool does not hold (LocalKeys) or ids it holds (a key *)
(* id is unique per user only, and store_key takes any key id).             *)
(***************************************************************************)
LocalKeys == (MaxKeys + 1)..(MaxKeys + MaxLocalKeys)
IKeys     == Keys \cup LocalKeys

Max0(x) == IF x > 0 THEN x ELSE 0
Min2(x, y) == IF x < y THEN x ELSE y

\* The cached key ids of a tier: the server key ids col puts in the tier and
\* the next cnt[T] - (their number) local key ids, tier after tier.
SyncCol(col, T) == {k \in Keys : col[k] = T}
SyncLocal(cnt, col, T) == cnt[T] - Cardinality(SyncCol(col, T))
SyncStart(cnt, col, T) ==
  MaxKeys + (IF T = "GOLD" THEN 0
             ELSE IF T = "SILVER" THEN SyncLocal(cnt, col, "GOLD")
             ELSE SyncLocal(cnt, col, "GOLD") + SyncLocal(cnt, col, "SILVER"))
SyncMembers(cnt, col, T) ==
  SyncCol(col, T) \cup
    ((SyncStart(cnt, col, T) + 1)..(SyncStart(cnt, col, T) + SyncLocal(cnt, col, T)))

SyncInitWith(over, cols) ==
  /\ VaultInit
  /\ ServerFilledWith(BrUsers, Tiers)
  /\ \E p \in Priorities, cnt \in [Tiers -> 0..6], col \in cols :
       /\ \A T \in Tiers :
            /\ cnt[T] <= BUDGET_CAPS[p][T] + (IF BUDGET_CAPS[p][T] > 0 THEN over ELSE 0)
            /\ SyncLocal(cnt, col, T) >= 0
       /\ SyncLocal(cnt, col, "GOLD") + SyncLocal(cnt, col, "SILVER")
            + SyncLocal(cnt, col, "BRONZE") <= MaxLocalKeys
       /\ Max0(BUDGET_CAPS[p]["GOLD"] - cnt["GOLD"])
            + Max0(BUDGET_CAPS[p]["SILVER"] - cnt["SILVER"])
            + Max0(BUDGET_CAPS[p]["BRONZE"] - cnt["BRONZE"]) <= MaxRows + 1
       /\ meta = [c \in Contacts |-> [priority |-> p, display_name |-> "", last_msg_at |-> 0]]
       /\ idx = [c \in Contacts |-> [T \in Tiers |-> [k \in IKeys |->
                   IF k \in SyncMembers(cnt, col, T) THEN 0 ELSE ZAbsent]]]
       /\ rec = [c \in Contacts |-> [k \in IKeys |->
                   IF \E T \in Tiers : k \in SyncMembers(cnt, col, T)
                     THEN Inv_serialize_entry(
                            CHOOSE T \in Tiers : k \in SyncMembers(cnt, col, T), 0)
                     ELSE IRecAbsent]]
  /\ ith = [t \in Threads |-> IIdle]
  /\ popped = [c \in Contacts |-> [T \in Tiers |-> 0 - 1]]
  /\ given = [tier |-> None, keys |-> {}]
  /\ watchSent = FALSE
  /\ BridgeInit

SyncInit == SyncInitWith(0, [Keys -> Tiers \cup {None}])

\* The one call of the run.
Sync_inventory_once(t) ==
  /\ bret.op = None
  /\ Br_sync_inventory_call(t)

SyncNext ==
  \/ Sync_inventory_once(1)
  \/ Br_sync_inventory_fetch(1)
  \/ Br_fetch_coins_return(1)
  \/ Br_fetch_and_cache_store(1)
  \/ Br_sync_inventory_return(1)

SpecSync == SyncInit /\ [][SyncNext]_vars

\* The rows of a tier the server holds for the target user, and those of
\* them that are claimed.
SyncRows(T) ==
  Cardinality({r \in Rids : rows[r].user \in BrUsers /\ rows[r].cat = T})
SyncClaimed(T) ==
  Cardinality({r \in Rids : rows[r].user \in BrUsers /\ rows[r].cat = T
                              /\ rows[r].fby # None})

(***************************************************************************)
(* C14: sync_inventory run alone for a registered contact computes for each *)
(* tier the deficit cap - count and asks the server for max(0, deficit)     *)
(* coins; when the server holds that many unclaimed coins of every tier,    *)
(* the call returns the deficit per tier, every tier is at its cap          *)
(* afterwards and the server has that many coins fewer unclaimed.           *)
(***************************************************************************)
C14_SyncTopsUpToCap ==
  [][LET l   == br[1]
         cap == BUDGET_CAPS[meta[br'[1].c].priority]
     IN /\ (l.pc = "idle" /\ br'[1].pc = "sync_next") =>
             \A T \in Tiers : br'[1].deficit[T] = cap[T] - ZCard(idx[br'[1].c][T])
        /\ (l.pc = "sync_next" /\ br'[1].pc = "await") =>
             Cardinality(sth'[1].got) =
               Min2(l.deficit[br'[1].cat],
                    SyncRows(br'[1].cat) - SyncClaimed(br'[1].cat))
        /\ (l.pc = "sync_next" /\ l.tiers = <<>> /\ br'[1].pc = "idle"
              /\ \A T \in Tiers : SyncRows(T) >= Max0(l.deficit[T])) =>
             \A T \in Tiers :
               /\ bret'.counts[T] = Max0(l.deficit[T])
               /\ ZCard(idx'[l.c][T]) = BUDGET_CAPS[meta[l.c].priority][T]
               /\ SyncClaimed(T) = bret'.counts[T]]_vars

(***************************************************************************)
(* Scenario A: every thread makes one store_key call, with a key id of its  *)
(* own, for one tier of a BESTIE contact.  The tier starts one entry below  *)
(* its cap (BRONZE, cap 1, starts empty), so the calls are more than the    *)
(* free places, as the 10 calls for the 5 places of the scenario are.       *)
(***************************************************************************)
ScenarioAInit ==
  /\ now = 0
  /\ VaultInit
  /\ ServerInit
  /\ meta = [c \in Contacts |-> [priority |-> "BESTIE", display_name |-> "", last_msg_at |-> 0]]
  /\ \E T0 \in Tiers :
       LET filled == (MaxKeys + 1)..(MaxKeys + BUDGET_CAPS["BESTIE"][T0] - 1)
       IN /\ idx = [c \in Contacts |-> [T \in Tiers |-> [k \in IKeys |->
                      IF T = T0 /\ k \in filled THEN 0 ELSE ZAbsent]]]
          /\ rec = [c \in Contacts |-> [k \in IKeys |->
                      IF k \in filled THEN Inv_serialize_entry(T0, 0) ELSE IRecAbsent]]
          /\ given = [tier |-> T0, keys |-> filled]
  /\ ith = [t \in Threads |-> IIdle]
  /\ popped = [c \in Contacts |-> [T \in Tiers |-> 0 - 1]]
  /\ watchSent \in BOOLEAN
  /\ BridgeInit

\* store_one: the one call of a thread.
Store_given_tier(t) ==
  /\ ith[t].op = None
  /\ Inv_store_key_get_priority(t)
  /\ ith'[t].pc = "store_watch"
  /\ ith'[t].cat = given.tier
  /\ FreshKey(ith'[t].c, ith'[t].key)

ScenarioANext ==
  \/ Tick
  \/ \E t \in Threads :
       \/ Store_given_tier(t)
       \/ Inv_store_key_watch(t)
       \/ Inv_store_key_zcard(t)
       \/ Inv_store_key_exec(t)
       \/ Inv_store_key_watch_error(t)

SpecScenarioA == ScenarioAInit /\ [][ScenarioANext]_vars

StoreReturned(res) == {t \in Threads : ith[t].pc = "idle" /\ ith[t].op = "store_key"
                                         /\ ith[t].res = res}

(***************************************************************************)
(* C15: when all the parallel store_key calls of scenario A have returned,  *)
(* as many have succeeded as the tier had free places, all the others have  *)
(* failed with BudgetExceeded (none with a Concurrency error), and the tier *)
(* holds exactly its cap.                                                   *)
(***************************************************************************)
C15_ScenarioAOutcome ==
  (\A t \in Threads : ith[t].pc = "idle" /\ ith[t].op = "store_key") =>
    LET cap  == BUDGET_CAPS["BESTIE"][given.tier]
        free == Min2(cap - Cardinality(given.keys), NumThreads)
    IN /\ Cardinality(StoreReturned("True")) = free
       /\ Cardinality(StoreReturned("BudgetExceeded")) = NumThreads - free
       /\ \A c \in Contacts : ZCard(idx[c][given.tier]) = cap

(***************************************************************************)
(* fetch_coins called by one task at a time on a pool that uploads filled.  *)
(***************************************************************************)
FetchSeqNext ==
  \/ Tick
  \/ Srv_fetch_coins_stmt(1)
  \/ Srv_fetch_coins_commit(1)

SpecFetchSeq == FetchInit /\ [][FetchSeqNext]_vars

\* The unclaimed rows of a user and a category.
Unclaimed(user, cat) ==
  {r \in Rids : rows[r].user = user /\ rows[r].cat = cat /\ rows[r].fby = None}

(***************************************************************************)
(* C16: a fetch_coins(target, requester, category, k) that runs while no    *)
(* other fetch is in progress claims min(k, available) unclaimed rows of    *)
(* (target, category); no unclaimed row it leaves behind was uploaded       *)
(* earlier than a row it claims; it marks and returns the claimed rows and  *)
(* no other row.                                                            *)
(***************************************************************************)
C16_FetchOldestFirst ==
  [][\A t \in Threads :
       /\ (sth[t].pc = "idle" /\ sth'[t].pc = "fetch_commit"
             /\ \A r \in Rids : rows[r].lock = 0) =>
            \A user \in Users, cat \in Tiers, count \in Counts :
              Srv_fetch_stmt(t, user, sth'[t].req, cat, count) =>
                LET S == sth'[t].got
                IN /\ S \subseteq Unclaimed(user, cat)
                   /\ Cardinality(S) = Min2(count, Cardinality(Unclaimed(user, cat)))
                   /\ \A g \in S, r \in Unclaimed(user, cat) \ S :
                        ~ (rows[r].up < rows[g].up)
                   /\ \A r \in Rids \ S : rows'[r] = rows[r]
       /\ (sth[t].pc = "fetch_commit" /\ sth'[t].pc = "idle") =>
            /\ sret'.got = sth[t].got
            /\ \A r \in sth[t].got : rows'[r].fby = sth[t].req
            /\ \A r \in Rids \ sth[t].got : rows'[r] = rows[r]]_vars

\* A fetch has returned one row and left behind an unclaimed row of the
\* same user and category that was uploaded later.
C16_Witness ==
  /\ sret.op = "fetch_coins"
  /\ \A t \in Threads : sth[t].pc = "idle"
  /\ \E g \in sret.got, r \in Rids :
       /\ sret.got = {g}
       /\ rows[g].fby # None
       /\ r \in Unclaimed(rows[g].user, rows[g].cat)
       /\ rows[r].up > rows[g].up

\* Thread t ends a set_contact_priority call that has changed the priority.
SetPriorityReturns(t) ==
  /\ ith[t].pc \in {"sp_hset", "trim_zcard", "trim_zpopmax", "trim_delete"}
  /\ ith[t].op = "set_contact_priority"
  /\ ith'[t].pc = "idle"

\* The ZPOPMAX of a trim leaves the cap oldest members of the index.
TrimKeepsOldest(t) ==
  LET l  == ith[t]
      z  == idx[l.c][Head(l.tiers)]
      zz == idx'[l.c][Head(l.tiers)]
  IN /\ ZMembers(zz) \subseteq ZMembers(z)
     /\ \A j \in ZMembers(zz) : zz[j] = z[j]
     /\ ZCard(zz) = BUDGET_CAPS[l.prio][Head(l.tiers)]
     /\ \A j \in ZMembers(zz), k \in ZMembers(z) \ ZMembers(zz) : z[j] <= z[k]

(***************************************************************************)
(* C18: when set_contact_priority changes a contact from old to new, every  *)
(* tier whose cap is lower under new than under old holds at most the new   *)
(* cap when the call returns, and what the call evicts from a tier are its  *)
(* newest entries: the survivors are the entries with the smallest          *)
(* fetched_at.                                                              *)
(***************************************************************************)
C18_TrimKeepsOldest ==
  [][\A t \in Threads :
       /\ (ith[t].pc = "trim_zpopmax" /\ ith[t].op = "set_contact_priority"
             /\ ith'[t].pc # "trim_zpopmax") => TrimKeepsOldest(t)
       /\ SetPriorityReturns(t) =>
            \A T \in Tiers :
              BUDGET_CAPS[ith[t].prio][T] < BUDGET_CAPS[ith[t].old][T] =>
                ZCard(idx'[ith[t].c][T]) <= BUDGET_CAPS[ith[t].prio][T]]_vars

(***************************************************************************)
(* C19: a select_coin call on a registered contact returns nothing exactly  *)
(* when the index of the desired tier and the index of each of its          *)
(* fallback tiers was empty when the call ran.                              *)
(***************************************************************************)
C19_NothingIffAllEmpty ==
  \A t \in Threads :
    (ith[t].pc = "idle" /\ ith[t].op = "select_coin"
       /\ ith[t].res \in {"entry", "None"}) =>
      (ith[t].res = "None" <=> ith[t].first = None)

(***************************************************************************)
(* consume_key calls running next to select_coin calls for a tier that      *)
(* store_key calls have filled.                                             *)
(***************************************************************************)
ConsumeNext ==
  \/ Tick
  \/ \E t \in Threads :
       \/ Inv_consume_key_hget(t)
       \/ Inv_consume_key_delete(t)
       \/ Inv_consume_key_zrem(t)
       \/ Select_given_tier(t)
       \/ Inv_pop_from_tier_zpopmin(t)
       \/ Inv_pop_from_tier_hgetall(t)
       \/ Inv_pop_from_tier_delete(t)
       \/ Inv_select_coin_hset(t)

SpecConsume == SelectInit /\ [][ConsumeNext]_vars

(***************************************************************************)
(* C20: the step of consume_key that deletes the entry record also removes  *)
(* the key id from the index of its tier, so that no state has only one of  *)
(* the two removed; a consume_key call that finds no record returns false   *)
(* and changes nothing.                                                     *)
(***************************************************************************)
C20_ConsumeRemovesBoth ==
  [][\A t \in Threads :
       /\ Inv_consume_key_delete(t) =>
            idx'[ith[t].c][ith[t].rcat][ith[t].key] = ZAbsent
       /\ (Inv_consume_key_hget(t) /\ ith'[t].res = "False") =>
            UNCHANGED <<meta, idx, rec>>]_vars

(***************************************************************************)
(* One batch of coins of one tier with distinct key ids (make_coins),       *)
(* uploaded again and again for the users of the server, next to            *)
(* fetch_coins and get_inventory_count calls.  given holds the tier and the *)
(* key ids of the batch.                                                    *)
(***************************************************************************)
RECURSIVE MakeCoins(_, _)
MakeCoins(S, T) ==
  IF S = {} THEN <<>>
  ELSE LET k == CHOOSE x \in S : \A y \in S : x <= y
       IN <<[key |-> k, cat |-> T]>> \o MakeCoins(S \ {k}, T)

GivenBatch == MakeCoins(given.keys, given.tier)

UploadInit ==
  /\ VaultInit
  /\ ServerInit
  /\ BridgeInit
  /\ now \in Times
  /\ meta = [c \in Contacts |-> MAbsent]
  /\ idx = [c \in Contacts |-> [T \in Tiers |-> ZEmpty]]
  /\ rec = [c \in Contacts |-> [k \in Keys |-> IRecAbsent]]
  /\ ith = [t \in Threads |-> IIdle]
  /\ popped = [c \in Contacts |-> [T \in Tiers |-> 0 - 1]]
  /\ watchSent = FALSE
  /\ given \in [tier : Tiers, keys : (SUBSET Keys) \ {{}}]

Upload_given_batch(t) ==
  \E user \in Users : Srv_upload_batch(t, user, GivenBatch)

UploadNext ==
  \/ Tick
  \/ \E t \in Threads :
       \/ Upload_given_batch(t)
       \/ Srv_fetch_coins_stmt(t)
       \/ Srv_fetch_coins_commit(t)
       \/ Srv_get_inventory_count(t)

SpecUpload == UploadInit /\ [][UploadNext]_vars

\* The key ids of the given batch that user already has a row for.
UploadedKeys(user) == {k \in given.keys : RowExists(rows, user, k)}

RowCount(tbl) == Cardinality({r \in Rids : tbl[r].user # None})

(***************************************************************************)
(* C21: an upload_coins call returns the number of rows it added; for a     *)
(* batch xs of distinct coins that is |xs| the first time it is uploaded    *)
(* for a user and 0 the second time, and the second upload leaves the       *)
(* counts of get_inventory_count as they were.                              *)
(***************************************************************************)
C21_UploadIdempotent ==
  [][\A t \in Threads, user \in Users :
       Srv_upload_batch(t, user, GivenBatch) =>
         /\ sret'.n = RowCount(rows') - RowCount(rows)
         /\ UploadedKeys(user) = {} => sret'.n = Len(GivenBatch)
         /\ UploadedKeys(user)' = given.keys
         /\ UploadedKeys(user) = given.keys =>
              /\ sret'.n = 0
              /\ Srv_inventory_count(user)' = Srv_inventory_count(user)
              /\ rows' = rows]_vars

\* The batch has been uploaded for a user and a further upload returned 0.
C21_Witness ==
  /\ sret.op = "upload_coins" /\ sret.n = 0
  /\ \E user \in Users : UploadedKeys(user) = given.keys

(***************************************************************************)
(* sync_inventory called once for a contact that is not registered, or is   *)
(* registered with tiers below, at or one entry above their caps (a tier    *)
(* gets above its cap through racing store_key calls or a promotion); the   *)
(* cached key ids are not key ids of the server.                            *)
(***************************************************************************)
SyncAnyInit ==
  \/ SyncInitWith(1, {[k \in Keys |-> None]})
  \/ /\ VaultInit
     /\ ServerFilledWith(BrUsers, Tiers)
     /\ meta = [c \in Contacts |-> MAbsent]
     /\ idx = [c \in Contacts |-> [T \in Tiers |-> [k \in IKeys |-> ZAbsent]]]
     /\ rec = [c \in Contacts |-> [k \in IKeys |-> IRecAbsent]]
     /\ ith = [t \in Threads |-> IIdle]
     /\ popped = [c \in Contacts |-> [T \in Tiers |-> 0 - 1]]
     /\ given = [tier |-> None, keys |-> {}]
     /\ watchSent = FALSE
     /\ BridgeInit

SpecSyncAny == SyncAnyInit /\ [][SyncNext]_vars

\* Every tier of the contact holds at least its cap.
AtEquilibrium(c) ==
  /\ meta[c] # MAbsent
  /\ \A T \in Tiers : ZCard(idx[c][T]) >= BUDGET_CAPS[meta[c].priority][T]

\* No coin of the server is claimed or being claimed.
NothingClaimed ==
  \A r \in Rids : rows[r].fby = None /\ rows[r].lock = 0 /\ delivered[r] = 0

(***************************************************************************)
(* C22: a sync_inventory call for a registered contact whose tiers all hold *)
(* at least their caps returns 0 for GOLD, SILVER and BRONZE, claims no     *)
(* coin on the server and leaves the local inventory as it is.              *)
(***************************************************************************)
C22_SyncAtEquilibrium ==
  [][\A c \in Contacts :
       (AtEquilibrium(c) /\ NothingClaimed) =>
         /\ NothingClaimed'
         /\ UNCHANGED <<rows, meta, idx, rec>>
         /\ bret'.op = "sync_inventory" =>
              bret'.res = "OK" /\ bret'.counts = NoCounts]_vars

\* The call has returned for a contact with a tier above its cap while the
\* server holds coins it could have claimed.
C22_Witness ==
  /\ bret.op = "sync_inventory"
  /\ NothingClaimed
  /\ \E r \in Rids : rows[r].user \in BrUsers
  /\ \E c \in Contacts :
       /\ AtEquilibrium(c)
       /\ \E T \in Tiers : ZCard(idx[c][T]) > BUDGET_CAPS[meta[c].priority][T]

(***************************************************************************)
(* C30: a sync_inventory call for a contact that is not registered returns  *)
(* 0 for GOLD, SILVER and BRONZE, claims no coin on the server and creates  *)
(* no meta hash, index member or entry record.                              *)
(***************************************************************************)
C30_SyncUnregistered ==
  [][\A c \in Contacts :
       meta[c] = MAbsent =>
         /\ UNCHANGED <<rows, delivered, sth, meta, idx, rec>>
         /\ bret' # bret => bret' = BRet("sync_inventory", "OK", 0, NoCounts)]_vars

\* The call has returned for an unregistered contact while the server holds
\* coins.
C30_Witness ==
  /\ bret.op = "sync_inventory"
  /\ \A c \in Contacts : meta[c] = MAbsent
  /\ \E r \in Rids : rows[r].user \in BrUsers /\ rows[r].fby = None

\* The garbage_collect calls that have returned.
GcReturned(t) == ith[t].pc = "idle" /\ ith[t].op = "garbage_collect"

(***************************************************************************)
(* C23: garbage_collect(inactive_days) run by one client leaves a contact   *)
(* whose last_msg_at is older than the cutoff with no entry record, empty   *)
(* tier indexes and priority STRANGER, and reports contacts_cleaned and     *)
(* keys_deleted equal to the number of contacts and of entries it removed;  *)
(* it leaves the entries, indexes and priority of any other contact         *)
(* unchanged.                                                               *)
(***************************************************************************)
C23_GcCleansInactive ==
  /\ [](\A t \in Threads, c \in Contacts :
         GcReturned(t) =>
           IF ith[t].pre.inactive
             THEN /\ \A k \in DOMAIN rec[c] : rec[c][k] = IRecAbsent
                  /\ \A T \in Tiers : ZCard(idx[c][T]) = 0
                  /\ meta[c].priority = "STRANGER"
                  /\ ith[t].result.contacts_cleaned = 1
                  /\ ith[t].result.keys_deleted = ith[t].pre.had
             ELSE /\ ith[t].result.contacts_cleaned = 0
                  /\ ith[t].result.keys_deleted = 0)
  /\ [][\A t \in Threads :
         (ith'[t] # ith[t] /\ ith'[t].pc = "idle" /\ ith'[t].op = "garbage_collect"
            /\ ~ ith'[t].pre.inactive) =>
           UNCHANGED <<meta, idx, rec>>]_vars

(***************************************************************************)
(* C24: dry_run(inactive_days) changes no contact meta, index or entry      *)
(* record, and returns the contacts_cleaned, keys_deleted and bytes_freed   *)
(* that garbage_collect(inactive_days) returns when it is run from the same *)
(* state.                                                                   *)
(***************************************************************************)
C24_DryRunMatchesGc ==
  /\ [](\A t \in Threads : GcReturned(t) => ith[t].result = ith[t].pre.dry)
  /\ [][\A t \in Threads :
         (ith'[t] # ith[t] /\ ith'[t].op = "dry_run") =>
           UNCHANGED <<meta, idx, rec>>]_vars

\* garbage_collect has returned after deleting the entries of a contact that
\* held some in two tiers.
C24_Witness ==
  \E t \in Threads :
    /\ GcReturned(t)
    /\ ith[t].pre.inactive
    /\ ith[t].result.keys_deleted >= 2
    /\ ith[t].result.bytes_freed \notin
         {2 * COIN_SIZE_BYTES[T] : T \in Tiers}

(***************************************************************************)
(* C25: a burn_key call fails with KeyNotFound when the entry is absent and *)
(* with KeyAlreadyBurned when its status is BURNED, and goes on to burn the *)
(* key only when it read ACTIVE; a failing call leaves the entry, its       *)
(* expiry class and the counters unchanged.                                 *)
(***************************************************************************)
C25_BurnFailsCleanly ==
  [][\A t \in Threads :
       Vault_burn_key_hmget(t) =>
         IF vth'[t].pc = "burn_exec"
           THEN vault[vth'[t].key].status = "ACTIVE"
           ELSE LET e == vault[vret'.key]
                IN /\ vret'.op = "burn_key"
                   /\ e = VAbsent <=> vret'.res = "KeyNotFound"
                   /\ e.status = "BURNED" <=> vret'.res = "KeyAlreadyBurned"
                   /\ vret'.res \in {"KeyNotFound", "KeyAlreadyBurned"}
                   /\ UNCHANGED <<vault, stats>>]_vars

\* A burn of a key that an earlier call has burned has failed, the key still
\* in its grace window.
C25_Witness ==
  /\ vret.op = "burn_key" /\ vret.res = "KeyAlreadyBurned"
  /\ vhist[vret.key].ok = 1
  /\ vault[vret.key].status = "BURNED" /\ vault[vret.key].ttl = BURN_GRACE

(***************************************************************************)
(* C26: a store_key call with an unknown category fails with                *)
(* InvalidCoinCategory; with a known category and a key id that is present  *)
(* (ACTIVE, or BURNED inside its grace window) it fails with                *)
(* KeyAlreadyExists; either way the stored entries, their status and the    *)
(* counters stay as they are.                                               *)
(***************************************************************************)
C26_StoreRejectsCleanly ==
  [][\A t \in Threads, k \in VKeys, cat \in VCategories, blob \in VBlobs :
       Vault_store_key_call(t, k, cat, blob) =>
         /\ cat \notin Tiers =>
              /\ vret' = VRet("store_key", k, "InvalidCoinCategory", 0)
              /\ vth'[t].pc = "idle"
              /\ UNCHANGED <<vault, stats>>
         /\ (cat \in Tiers /\ vault[k] # VAbsent) =>
              /\ vret' = VRet("store_key", k, "KeyAlreadyExists", 0)
              /\ vth'[t].pc = "idle"
              /\ UNCHANGED <<vault, stats>>]_vars

\* A store_key on a burned key that is still in its grace window has failed.
C26_Witness ==
  /\ vret.op = "store_key" /\ vret.res = "KeyAlreadyExists"
  /\ vault[vret.key].status = "BURNED" /\ vault[vret.key].ttl = BURN_GRACE
  /\ \A t \in Threads : vth[t].pc = "idle"


(***************************************************************************)
(* C27: the pairs (priority, tier) with budget cap 0 are STRANGER with any  *)
(* tier and MATE with GOLD; a store_key call for a contact of such a        *)
(* priority and such a tier raises BudgetExceeded with current count 0 and  *)
(* cap 0, and leaves the records and the indexes as they were.              *)
(***************************************************************************)
C27_CapZeroRejected ==
  /\ \A p \in Priorities, T \in Tiers :
       BUDGET_CAPS[p][T] = 0 <=> (p = "STRANGER" \/ (p = "MATE" /\ T = "GOLD"))
  /\ [][\A t \in Threads, c \in Contacts, k \in Keys, cat \in Tiers :
          (/\ meta[c] # MAbsent
           /\ BUDGET_CAPS[meta[c].priority][cat] = 0
           /\ Inv_store_key_call(t, c, k, cat)) =>
            /\ ith'[t] = IBudgetExceeded("store_key", 0, 0)
            /\ UNCHANGED <<idx, rec, meta>>]_vars

\* A MATE that holds keys has had a store_key refused with 0 of 0.
C27_Witness ==
  \E t \in Threads, c \in Contacts :
    /\ ith[t] = IBudgetExceeded("store_key", 0, 0)
    /\ meta[c].priority = "MATE"
    /\ ZCard(idx[c]["SILVER"]) > 0


(***************************************************************************)
(* One thread registers the contact again and again, with display names    *)
(* and priorities of its choice, and changes the priority in between.       *)
(***************************************************************************)
DisplayNames == {"", "Alice"}

Register_named(t) ==
  \E c \in Contacts, p \in IPriorities, name \in DisplayNames :
    Inv_register_contact_call(t, c, p, name)

RegisterNext ==
  \/ Tick
  \/ Register_named(1)
  \/ Inv_register_contact_hset(1)
  \/ Inv_set_contact_priority_get(1)
  \/ Inv_set_contact_priority_hset(1)
  \/ Inv_trim_excess_zcard(1)

SpecRegister == Init /\ [][RegisterNext]_vars

(***************************************************************************)
(* C28: register_contact with a valid priority for a contact with no meta   *)
(* hash writes the priority, the display name and last_msg_at and returns   *)
(* True; the meta hash is never removed, and a register_contact for a       *)
(* contact that has one returns False and leaves priority, display name and *)
(* last_msg_at as they were, whatever priority and name it passes.          *)
(***************************************************************************)
C28_RegisterTwice ==
  [][\A t \in Threads, c \in Contacts :
       /\ meta[c] # MAbsent => meta'[c] # MAbsent
       /\ \A p \in Priorities, name \in DisplayNames :
            Inv_register_contact_call(t, c, p, name) =>
              IF meta[c] = MAbsent
                THEN /\ ith'[t].pc = "reg_hset"
                     /\ UNCHANGED <<meta, idx, rec>>
                ELSE /\ ith'[t] = IRegisterDone(c, p, name, "False")
                     /\ UNCHANGED <<meta, idx, rec>>
       /\ (ith[t].c = c /\ Inv_register_contact_hset(t)) =>
            /\ ith'[t] = IRegisterDone(c, ith[t].prio, ith[t].name, "True")
            /\ meta'[c] = [priority |-> ith[t].prio, display_name |-> ith[t].name,
                           last_msg_at |-> now]]_vars

\* A second register_contact, as a STRANGER with no name, has returned False
\* for a BESTIE registered as Alice at time 0.
C28_Witness ==
  \E t \in Threads, c \in Contacts :
    /\ ith[t] = IRegisterDone(c, "STRANGER", "", "False")
    /\ meta[c] = [priority |-> "BESTIE", display_name |-> "Alice", last_msg_at |-> 0]
    /\ now = 1


\* The rows of the table, and the rows a step deletes.
PresentRows == {r \in Rids : rows[r].user # None}
DeletedRows == {r \in PresentRows : rows'[r] = RAbsent}

(***************************************************************************)
(* C29: purge_stale deletes no row whose fetched_by is set and no row       *)
(* uploaded at or after its threshold; hard_delete_fetched deletes no row   *)
(* whose fetched_by is null and no row fetched at or after its threshold;   *)
(* each leaves the rows it does not delete as they were and returns the     *)
(* number of rows it deleted.                                               *)
(***************************************************************************)
C29_SweepsPartitioned ==
  [][\A t \in Threads, age \in MaxAges :
       /\ (sret'.op = "purge_stale" /\ Srv_purge_stale_call(t, age)) =>
            /\ \A r \in DeletedRows : rows[r].fby = None /\ rows[r].up < now - age
            /\ \A r \in Rids \ DeletedRows : rows'[r] = rows[r]
            /\ sret'.n = Cardinality(DeletedRows)
       /\ (sret'.op = "hard_delete_fetched" /\ Srv_hard_delete_fetched_call(t, age)) =>
            /\ \A r \in DeletedRows : rows[r].fby # None /\ rows[r].fat < now - age
            /\ \A r \in Rids \ DeletedRows : rows'[r] = rows[r]
            /\ sret'.n = Cardinality(DeletedRows)]_vars

\* purge_stale has deleted one row and has left a claimed row that was
\* uploaded before its threshold.
C29_Witness ==
  /\ sret.op = "purge_stale"
  /\ sret.n = 1
  /\ \E r \in Rids : rows[r].fby # None /\ rows[r].up < now


(***************************************************************************)
(* Every thread makes one call on the contact, whose inventory store_key    *)
(* calls have filled in one tier: select_coin, consume_key, store_key,      *)
(* set_contact_priority or garbage_collect, the commands of the calls       *)
(* interleaved.                                                             *)
(***************************************************************************)
ConcInit == FilledTierInit /\ watchSent \in BOOLEAN

Conc_call(t) ==
  /\ ith[t].op = None
  /\ \/ Inv_select_coin_get_priority(t)
     \/ Inv_consume_key_hget(t)
     \/ Inv_store_key_get_priority(t)
     \/ Inv_set_contact_priority_get(t)
     \/ Gc_garbage_collect_get_meta(t)

ConcNext ==
  \/ Tick
  \/ \E t \in Threads :
       \/ Conc_call(t)
       \/ Inv_pop_from_tier_zpopmin(t)
       \/ Inv_pop_from_tier_hgetall(t)
       \/ Inv_pop_from_tier_delete(t)
       \/ Inv_select_coin_hset(t)
       \/ Inv_consume_key_delete(t)
       \/ Inv_consume_key_zrem(t)
       \/ Inv_store_key_watch(t)
       \/ Inv_store_key_zcard(t)
       \/ Inv_store_key_exec(t)
       \/ Inv_store_key_watch_error(t)
       \/ Inv_set_contact_priority_hset(t)
       \/ Inv_trim_excess_zcard(t)
       \/ Inv_trim_excess_zpopmax(t)
       \/ Inv_trim_excess_delete(t)
       \/ Gc_delete_all_keys_zrange(t)
       \/ Gc_delete_all_keys_delete(t)
       \/ Gc_delete_all_keys_delete_idx(t)
       \/ Gc_set_contact_priority_get(t)

SpecConc == ConcInit /\ [][ConcNext]_vars

(***************************************************************************)
(* C31: with select_coin, consume_key, store_key, set_contact_priority and  *)
(* garbage_collect calls interleaved on one contact, every key id that is   *)
(* a member of a tier index has its entry record.                           *)
(***************************************************************************)
C31_IndexedHasRecord ==
  \A c \in Contacts, T \in Tiers, k \in Keys :
    idx[c][T][k] # ZAbsent => rec[c][k] # IRecAbsent


(***************************************************************************)
(* C32: between inventory operations, for every contact, tier T and key id, *)
(* the key id is a member of the index of T if and only if its entry        *)
(* record exists with coin_category T.                                      *)
(***************************************************************************)
C32_IndexIffRecord ==
  InvQuiescent =>
    \A c \in Contacts, T \in Tiers, k \in Keys :
      idx[c][T][k] # ZAbsent <=> rec[c][k].coin_category = T


(***************************************************************************)
(* One store_key call with a key id that is not cached, for the tier that   *)
(* is filled, next to one set_contact_priority call that lowers the         *)
(* priority of the contact.                                                 *)
(***************************************************************************)
Lower_priority(t) ==
  /\ ith[t].op = None
  /\ Inv_set_contact_priority_get(t)
  /\ ith'[t].pc = "sp_hset"
  /\ PriorityRank[ith'[t].prio] > PriorityRank[ith'[t].old]

LowerNext ==
  \/ Tick
  \/ Store_given_tier(1)
  \/ Inv_store_key_watch(1)
  \/ Inv_store_key_zcard(1)
  \/ Inv_store_key_exec(1)
  \/ Inv_store_key_watch_error(1)
  \/ Lower_priority(2)
  \/ Inv_set_contact_priority_hset(2)
  \/ Inv_trim_excess_zcard(2)
  \/ Inv_trim_excess_zpopmax(2)
  \/ Inv_trim_excess_delete(2)

SpecLower == ConcInit /\ [][LowerNext]_vars

(***************************************************************************)
(* C33: once a store_key call and a concurrent set_contact_priority call    *)
(* that lowers the priority have both returned, the index of the stored     *)
(* tier holds at most as many key ids as the cap of the new priority.       *)
(***************************************************************************)
C33_StoreVersusLowering ==
  (/\ ith[1].pc = "idle" /\ ith[1].op = "store_key"
   /\ ith[2].pc = "idle" /\ ith[2].op = "set_contact_priority") =>
    \A c \in Contacts :
      ZCard(idx[c][given.tier]) <= BUDGET_CAPS[meta[c].priority][given.tier]


(***************************************************************************)
(* sync_inventory tasks for the same contact on one event loop: a task      *)
(* gives way to the other one only at its awaited fetch_coins.  No key id   *)
(* of the server is cached at the start.                                    *)
(***************************************************************************)
SyncTasksInit == SyncInitWith(0, {[k \in Keys |-> None]})

SyncTasksNext ==
  \E t \in Threads :
    \/ Br_sync_inventory_call(t)
    \/ Br_sync_inventory_fetch(t)
    \/ Br_fetch_coins_return(t)
    \/ Br_fetch_and_cache_store(t)
    \/ Br_sync_inventory_return(t)

SpecSyncTasks == SyncTasksInit /\ [][SyncTasksNext]_vars

\* No bridge call is in progress.
BridgeQuiescent == \A t \in Threads : br[t].pc = "idle"

(***************************************************************************)
(* C34: when the sync_inventory tasks have returned, every coin that is     *)
(* marked fetched on the server is cached in the index of its tier, so as   *)
(* many coins are cached as were claimed.                                   *)
(***************************************************************************)
C34_NoCoinLost ==
  BridgeQuiescent =>
    \A r \in Rids : rows[r].fby # None =>
      \E c \in Contacts : idx[c][rows[r].cat][rows[r].key] # ZAbsent


(***************************************************************************)
(* Two store_key calls for the same key id, which the vault does not hold,  *)
(* one call per thread, their commands interleaved.  The threads are        *)
(* alike, so thread 1 is the one that starts first.                         *)
(***************************************************************************)
Store_same_key(t) ==
  /\ vops = t - 1
  /\ \E cat \in Tiers, blob \in VBlobs : Vault_store_key_call(t, "k1", cat, blob)

StoreDupNext ==
  \/ Tick
  \/ \E t \in Threads :
       \/ Store_same_key(t)
       \/ Vault_store_key_exec(t)

SpecStoreDup == Init /\ [][StoreDupNext]_vars

(***************************************************************************)
(* C35: when the two store_key calls for the same absent key id have        *)
(* returned, one has succeeded and the other has failed with                *)
(* KeyAlreadyExists (the failing call is the one to return last), the key   *)
(* is ACTIVE and the active counters add up to one.                         *)
(***************************************************************************)
C35_OneStoreSucceeds ==
  (vops = NumThreads /\ VaultQuiescent) =>
    /\ vret = VRet("store_key", "k1", "KeyAlreadyExists", 0)
    /\ vault["k1"].status = "ACTIVE"
    /\ stats.active["GOLD"] + stats.active["SILVER"] + stats.active["BRONZE"] = 1


(***************************************************************************)
(* C36: with select_coin and consume_key calls interleaved on one contact,  *)
(* no two calls hand out the same stored entry: no two select_coin calls    *)
(* return the same key id, and no consume_key call returns True for a key   *)
(* id that a select_coin call returns.  (Every select_coin is made once per *)
(* thread and every key id is stored once, so a key id names one entry.)    *)
(***************************************************************************)
C36_HandedOutOnce ==
  \A t, u \in Threads :
    (/\ t # u
     /\ ith[t].pc = "idle" /\ ith[t].op = "select_coin" /\ ith[t].res = "entry") =>
      /\ ~ (/\ ith[u].pc = "idle" /\ ith[u].op = "select_coin" /\ ith[u].res = "entry"
            /\ ith[u].key = ith[t].key)
      /\ ~ (/\ ith[u].pc = "idle" /\ ith[u].op = "consume_key" /\ ith[u].res = "True"
            /\ ith[u].key = ith[t].key)


(***************************************************************************)
(* The life of one coin: bob uploads key id 1 again and again, next to      *)
(* fetch_coins calls and the two maintenance sweeps.  Every row the table   *)
(* ever holds is a row of (bob, 1).                                         *)
(***************************************************************************)
Upload_same_coin(t) ==
  \E cat \in UploadTiers : Srv_upload_batch(t, "bob", <<[key |-> 1, cat |-> cat]>>)

ReuploadNext ==
  \/ Tick
  \/ \E t \in Threads :
       \/ Upload_same_coin(t)
       \/ Srv_fetch_coins_stmt(t)
       \/ Srv_fetch_coins_commit(t)
       \/ Srv_purge_stale(t)
       \/ Srv_hard_delete_fetched(t)

SpecReupload == Init /\ [][ReuploadNext]_vars

(***************************************************************************)
(* C37: over the life of the server, with uploads, fetches and both sweeps, *)
(* the coin (bob, 1) is returned by at most one fetch_coins call: at most   *)
(* one of the rows it ever had has been delivered, and that one once.       *)
(***************************************************************************)
C37_KeyServedOnce ==
  /\ \A r \in Rids : delivered[r] <= 1
  /\ Cardinality({r \in Rids : delivered[r] > 0}) <= 1


(***************************************************************************)
(* C38: a fetch_and_cache call that ends with an error of the inventory     *)
(* other than BudgetExceeded leaves no coin marked as fetched by it: the    *)
(* coins it claimed are unclaimed when it returns.                          *)
(***************************************************************************)
C38_ErrorLeavesPool ==
  [][\A t \in Threads :
       (/\ br[t].pc = "ready" /\ br[t].op = "fetch_and_cache"
        /\ br'[t].pc = "idle"
        /\ bret'.res \in {"ContactNotRegistered", "ConcurrencyError"}) =>
         \A r \in Rids :
           (rows[r].user \in BrUsers /\ rows[r].key \in SeqSet(br[t].coins)) =>
             rows'[r].fby = None]_vars


(***************************************************************************)
(* One store_key call of thread 1, with a key id that is not cached, for a  *)
(* registered contact and a tier with cap > 0, next to the store_key and    *)
(* consume_key calls of thread 2, which write to the tier index again and   *)
(* again.  The client of thread 1 gets the reply of every command it sends: *)
(* a call that has started goes on.                                         *)
(***************************************************************************)
Retry_store_steps(t) ==
  \/ Inv_store_key_watch(t)
  \/ Inv_store_key_zcard(t)
  \/ Inv_store_key_exec(t)
  \/ Inv_store_key_watch_error(t)

\* A store_key call for the tier, with any key id.
Retry_other_store(t) ==
  /\ Inv_store_key_get_priority(t)
  /\ ith'[t].pc = "store_watch"
  /\ ith'[t].cat = given.tier

RetryNext ==
  \/ Store_given_tier(1)
  \/ Retry_store_steps(1)
  \/ Retry_other_store(2)
  \/ Retry_store_steps(2)
  \/ Inv_consume_key_hget(2)
  \/ Inv_consume_key_delete(2)
  \/ Inv_consume_key_zrem(2)

SpecRetry == ConcInit /\ [][RetryNext]_vars /\ WF_vars(Retry_store_steps(1))

\* The store_key call of thread 1 is in progress.
StoreInProgress == ith[1].op = "store_key" /\ ith[1].pc # "idle"

C40_ActiveNonNegative ==
  \A T \in Tiers : stats.active[T] >= 0

=============================================================================
